---- MODULE Spec2Model ----
(***************************************************************************)
(* A model of the TradingView screener tool server                         *)
(* (src/src/tradingview_mcp): the parameter sanitizers, the symbol loader  *)
(* and the scan tools of server.py.                                        *)
(*                                                                         *)
(* Text is modelled as a sequence of one-character strings, so that        *)
(* str.strip, str.lower and str.split are computed character by character. *)
(* Prices, volumes and percentages are fixed-point integers.               *)
(***************************************************************************)
EXTENDS Integers, Sequences, FiniteSets, TLC

VARIABLES
    sanFn,      \* sanitizer last applied: "none", "timeframe" or "exchange"
    sanIn,      \* the string handed to the sanitizer
    sanDefault, \* the default handed to the sanitizer
    sanOut,     \* the value the sanitizer returned
    fs,         \* the file system: path -> file state
    lsExchange, \* the argument of the last load_symbols call
    lsOut,      \* what load_symbols did: [exc, value]
    market,     \* the provider's data: symbol -> analysis or no data
    taAvailable,       \* TRADINGVIEW_TA_AVAILABLE
    screenerAvailable, \* TRADINGVIEW_SCREENER_AVAILABLE
    loggerRaises,      \* every call of a logger method raises
    pc,         \* position of the tool invocation: "idle", "loop", "done"
    tool,       \* the tool invoked
    args,       \* its arguments as given by the caller
    loc,        \* its local variables after sanitizing and clamping
    symbols,    \* the symbol list the invocation works on
    idx,        \* loop variable i of the batch loop
    rows,       \* rows collected so far (all_coins, volume_breakouts)
    calls,      \* the provider calls made so far, in order
    query,      \* how the screener query of the invocation ended, if made
    result,     \* what the invocation returned or raised
    sessions    \* concurrent invocations: session -> its local variables

vars == <<sanFn, sanIn, sanDefault, sanOut, fs, lsExchange, lsOut,
          market, taAvailable, screenerAvailable, loggerRaises,
          pc, tool, args, loc, symbols, idx, rows, calls, query, result,
          sessions>>

envVars == <<market, taAvailable, screenerAvailable, loggerRaises>>
toolVars == <<pc, tool, args, loc, symbols, idx, rows, calls, query, result>>

concVars == <<sessions>>

sanVars == <<sanFn, sanIn, sanDefault, sanOut>>
loadVars == <<fs, lsExchange, lsOut>>

(***************************************************************************)
(* Text                                                                    *)
(***************************************************************************)
UpperLetters == <<"A","B","C","D","E","F","G","H","I","J","K","L","M",
                  "N","O","P","Q","R","S","T","U","V","W","X","Y","Z">>
LowerLetters == <<"a","b","c","d","e","f","g","h","i","j","k","l","m",
                  "n","o","p","q","r","s","t","u","v","w","x","y","z">>

\* str.lower on one character
LowerChar(c) ==
    IF \E i \in 1..Len(UpperLetters) : UpperLetters[i] = c
    THEN LowerLetters[CHOOSE i \in 1..Len(UpperLetters) : UpperLetters[i] = c]
    ELSE c

\* str.upper on one character
UpperChar(c) ==
    IF \E i \in 1..Len(LowerLetters) : LowerLetters[i] = c
    THEN UpperLetters[CHOOSE i \in 1..Len(LowerLetters) : LowerLetters[i] = c]
    ELSE c

\* str.upper
Upper(s) == [i \in 1..Len(s) |-> UpperChar(s[i])]

\* str.lower
Lower(s) == [i \in 1..Len(s) |-> LowerChar(s[i])]

\* the characters str.strip removes
Whitespace == {" ", "\t", "\n", "\r"}

RECURSIVE LStrip(_)
LStrip(s) == IF s # <<>> /\ Head(s) \in Whitespace THEN LStrip(Tail(s)) ELSE s

RECURSIVE RStrip(_)
RStrip(s) ==
    IF s # <<>> /\ s[Len(s)] \in Whitespace
    THEN RStrip(SubSeq(s, 1, Len(s) - 1))
    ELSE s

\* str.strip
Strip(s) == RStrip(LStrip(s))

\* str.split(sep) for a one-character separator: always at least one piece
RECURSIVE Split(_, _)
Split(s, sep) ==
    IF \A i \in 1..Len(s) : s[i] # sep
    THEN <<s>>
    ELSE LET k == CHOOSE i \in 1..Len(s) :
                      s[i] = sep /\ \A j \in 1..(i - 1) : s[j] # sep
         IN <<SubSeq(s, 1, k - 1)>> \o Split(SubSeq(s, k + 1, Len(s)), sep)

\* [x for x in s if keep(x)] with keep = "non-empty"
RECURSIVE NonEmpty(_)
NonEmpty(ss) ==
    IF ss = <<>> THEN <<>>
    ELSE IF Head(ss) # <<>> THEN <<Head(ss)>> \o NonEmpty(Tail(ss))
    ELSE NonEmpty(Tail(ss))

(***************************************************************************)
(* validators.py                                                           *)
(***************************************************************************)
ALLOWED_TIMEFRAMES ==
    { <<"5","m">>, <<"1","5","m">>, <<"1","h">>, <<"4","h">>,
      <<"1","D">>, <<"1","W">>, <<"1","M">> }

ScreenerKeys ==
    { <<"a","l","l">>, <<"h","u","o","b","i">>, <<"k","u","c","o","i","n">>,
      <<"c","o","i","n","b","a","s","e">>, <<"g","a","t","e","i","o">>,
      <<"b","i","n","a","n","c","e">>, <<"b","i","t","f","i","n","e","x">>,
      <<"b","y","b","i","t">>, <<"o","k","x">>, <<"b","i","s","t">>,
      <<"n","a","s","d","a","q">> }

EXCHANGE_SCREENER ==
    [k \in ScreenerKeys |->
        IF k = <<"b","i","s","t">> THEN "turkey"
        ELSE IF k = <<"n","a","s","d","a","q">> THEN "america"
        ELSE "crypto"]

\* sanitize_timeframe without its strip()
sanitize_timeframe_unstripped(tf, default) ==
    IF tf = <<>> THEN default
    ELSE IF tf \in ALLOWED_TIMEFRAMES THEN tf ELSE default

sanitize_timeframe(tf, default) ==
    IF tf = <<>> THEN default
    ELSE LET tfs == Strip(tf)
         IN IF tfs \in ALLOWED_TIMEFRAMES THEN tfs ELSE default

sanitize_exchange(ex, default) ==
    IF ex = <<>> THEN default
    ELSE LET exs == Lower(Strip(ex))
         IN IF exs \in DOMAIN EXCHANGE_SCREENER THEN exs ELSE default


(***************************************************************************)
(* coinlist.py: the file system seen by load_symbols                       *)
(***************************************************************************)
\* ".txt"
TxtSuffix == <<".","t","x","t">>

\* A path is the directory a path strategy resolves to and a file name.
\* "COINLIST_DIR" is validators.COINLIST_DIR; "fallback" is
\* dirname(__file__)/../../coinlist.
Path(dir, name) == [dir |-> dir, name |-> name]

\* What a path holds: nothing, a file open() refuses, a file whose bytes
\* are not UTF-8, or a text file.
Absent == [kind |-> "absent", text |-> <<>>]
Denied == [kind |-> "denied", text |-> <<>>]
Undecodable == [kind |-> "undecodable", text |-> <<>>]
TextFile(t) == [kind |-> "text", text |-> t]

\* the state of path p; a path the file system does not list is absent
FileAt(fsys, p) == IF p \in DOMAIN fsys THEN fsys[p] ELSE Absent

\* os.path.exists
path_exists(fsys, p) == FileAt(fsys, p).kind # "absent"

\* open(path, 'r', encoding='utf-8') followed by f.read(): the exception
\* raised ("none" when the read succeeds) and the content read
open_read(fsys, p) ==
    LET f == FileAt(fsys, p)
    IN CASE f.kind = "absent" -> [exc |-> "FileNotFoundError", content |-> <<>>]
         [] f.kind = "denied" -> [exc |-> "PermissionError", content |-> <<>>]
         [] f.kind = "undecodable" -> [exc |-> "UnicodeDecodeError", content |-> <<>>]
         [] OTHER -> [exc |-> "none", content |-> f.text]

\* the classes an exception is an instance of (IOError is OSError)
ExcClasses(exc) ==
    CASE exc = "FileNotFoundError" -> {"FileNotFoundError", "OSError", "IOError", "Exception"}
      [] exc = "PermissionError" -> {"PermissionError", "OSError", "IOError", "Exception"}
      [] exc = "UnicodeDecodeError" -> {"UnicodeDecodeError", "UnicodeError", "ValueError", "Exception"}
      [] exc = "TypeError" -> {"TypeError", "Exception"}
      [] exc = "RuntimeError" -> {"RuntimeError", "Exception"}
      [] exc = "NameError" -> {"NameError", "Exception"}
      [] OTHER -> {exc, "Exception"}

\* except (FileNotFoundError, IOError, UnicodeDecodeError)
LoadHandlerNoDecode == {"FileNotFoundError", "IOError"}
LoadHandler == {"FileNotFoundError", "IOError", "UnicodeDecodeError"}

\* [line.strip() for line in content.split('\n') if line.strip()]
RECURSIVE StripAll(_)
StripAll(ls) == IF ls = <<>> THEN <<>> ELSE <<Strip(Head(ls))>> \o StripAll(Tail(ls))

parse_symbols(content) == NonEmpty(StripAll(Split(content, "\n")))

\* the candidate paths, in the order load_symbols tries them
possible_paths_lower_first(exchange) ==
    << Path("COINLIST_DIR", Lower(exchange) \o TxtSuffix),
       Path("COINLIST_DIR", exchange \o TxtSuffix),
       Path("fallback", Lower(exchange) \o TxtSuffix),
       Path("fallback", exchange \o TxtSuffix) >>
possible_paths(exchange) ==
    << Path("COINLIST_DIR", exchange \o TxtSuffix),
       Path("COINLIST_DIR", Lower(exchange) \o TxtSuffix),
       Path("fallback", exchange \o TxtSuffix),
       Path("fallback", Lower(exchange) \o TxtSuffix) >>

\* the body of the for loop for one path: "return" with the symbols,
\* "continue", or "raise" with an exception the handler does not catch
try_path(fsys, p) ==
    IF ~path_exists(fsys, p)
    THEN [do |-> "continue", exc |-> "none", value |-> <<>>]
    ELSE LET r == open_read(fsys, p)
             syms == parse_symbols(r.content)
         IN IF r.exc # "none"
            THEN IF ExcClasses(r.exc) \cap LoadHandler # {}
                 THEN [do |-> "continue", exc |-> "none", value |-> <<>>]
                 ELSE [do |-> "raise", exc |-> r.exc, value |-> <<>>]
            ELSE IF syms # <<>>
                 THEN [do |-> "return", exc |-> "none", value |-> syms]
                 ELSE [do |-> "continue", exc |-> "none", value |-> <<>>]

RECURSIVE load_from(_, _)
load_from(fsys, paths) ==
    IF paths = <<>> THEN [exc |-> "none", value |-> <<>>]
    ELSE LET t == try_path(fsys, Head(paths))
         IN IF t.do = "continue" THEN load_from(fsys, Tail(paths))
            ELSE [exc |-> t.exc, value |-> t.value]

\* load_symbols(exchange): the exception it raises ("none" if it returns)
\* and the list it returns
load_symbols(fsys, exchange) == load_from(fsys, possible_paths(exchange))


(***************************************************************************)
(* Values.  A Python value that is a number or None is <<n>> or <<>>; a    *)
(* key a dict lacks is a key outside its DOMAIN.  Prices and volumes are   *)
(* integers; a percentage is kept in hundredths of a percent and a ratio   *)
(* (Bollinger Band width, volume ratio) in hundredths, and the snapshots   *)
(* below are chosen so that every quotient is exact.                       *)
(***************************************************************************)
None == <<>>
Some(n) == <<n>>
IsNone(x) == x = <<>>
Num(x) == x[1]

\* bool(x) for a number or None
Truthy(x) == x # <<>> /\ x[1] # 0

\* dict.get(key, default)
Get(d, key, default) == IF key \in DOMAIN d THEN d[key] ELSE default

Min(a, b) == IF a <= b THEN a ELSE b
Max(a, b) == IF a >= b THEN a ELSE b
Abs(a) == IF a >= 0 THEN a ELSE 0 - a

\* max(lo, min(x, hi)) as the tools write it
Clamp(lo, x, hi) == Max(lo, Min(x, hi))

\* seq[:n] forgotten: the whole list
TakeAll(seq, n) == seq

\* seq[:n] for n >= 0
Take(seq, n) == SubSeq(seq, 1, Min(n, Len(seq)))

\* seq[a:b] for 0 <= a <= b
Slice(seq, a, b) == SubSeq(seq, a + 1, Min(b, Len(seq)))

\* list.sort(key=...) on integer keys: stable, ascending.  keys[i] is the
\* key of seq[i].
SortedByKeys(seq, keys) ==
    LET n == Len(seq)
        rank(i) == Cardinality({j \in 1..n :
                       keys[j] < keys[i] \/ (keys[j] = keys[i] /\ j < i)}) + 1
    IN [r \in 1..n |-> seq[CHOOSE i \in 1..n : rank(i) = r]]

\* _percent_change(o, c), in hundredths of a percent
percent_change(o, c) ==
    IF IsNone(o) \/ o = Some(0) \/ IsNone(c) THEN None
    ELSE Some(((Num(c) - Num(o)) * 10000) \div Num(o))

(***************************************************************************)
(* The market-data provider (tradingview_ta)                               *)
(***************************************************************************)
\* what the provider holds for one symbol: no data (None) or an analysis
\* object with an indicators mapping
NoData == [present |-> FALSE, indicators |-> <<>>]
Analysis(ind) == [present |-> TRUE, indicators |-> ind]

\* get_multiple_analysis(screener, interval, symbols) when it returns: the
\* items of the mapping, one per requested symbol, in request order
get_multiple_analysis(mkt, syms) ==
    [k \in 1..Len(syms) |->
        [key |-> syms[k],
         value |-> IF syms[k] \in DOMAIN mkt THEN mkt[syms[k]] ELSE NoData]]

(***************************************************************************)
(* indicators.compute_metrics, from its contract in the specification      *)
(* (section 4.3): the record {price, open, change, bbw, rating, signal},   *)
(* where an undefined field is None, or no record for an empty snapshot.   *)
(***************************************************************************)
NoMetrics == <<>>

\* Bollinger Band width (upper - lower) / middle in hundredths of a
\* percent of the midline; None when the midline is zero or a band is
\* missing
compute_bbw(sma, upper, lower) ==
    IF ~Truthy(sma) \/ IsNone(upper) \/ IsNone(lower) THEN None
    ELSE Some(((Num(upper) - Num(lower)) * 10000) \div Num(sma))

compute_metrics(ind) ==
    IF DOMAIN ind = {} THEN NoMetrics
    ELSE [price |-> Get(ind, "close", None),
          open |-> Get(ind, "open", None),
          change |-> percent_change(Get(ind, "open", None), Get(ind, "close", None)),
          bbw |-> compute_bbw(Get(ind, "SMA20", None), Get(ind, "BB.upper", None),
                              Get(ind, "BB.lower", None)),
          rating |-> Get(ind, "rating", Some(0)),
          signal |-> "signal"]


(***************************************************************************)
(* server.py: results of an invocation                                     *)
(***************************************************************************)
\* the invocation returned value
Returned(value) == [exc |-> "none", value |-> value]
\* the invocation raised exc to the hosting shell
Raised(exc) == [exc |-> exc, value |-> <<>>]
NoResult == [exc |-> "pending", value |-> <<>>]

\* the default every tool hands to sanitize_exchange: "KUCOIN"
DefaultExchange == <<"K","U","C","O","I","N">>

\* EXCHANGE_SCREENER.get(exchange, "crypto")
screener_of(exchange) ==
    IF exchange \in DOMAIN EXCHANGE_SCREENER THEN EXCHANGE_SCREENER[exchange]
    ELSE "crypto"

\* a batch whose provider call raises with the handler around the whole
\* loop instead of around the call: the rows collected so far are lost
batch_rows_lost(collected, ok, batch) == IF ok THEN collected \o batch ELSE <<>>

\* try: analysis = get_multiple_analysis(...) / except Exception: continue,
\* then the loop over the items: the rows after one batch
batch_rows(collected, ok, batch) == IF ok THEN collected \o batch ELSE collected

\* one provider call as logged in calls
Call(screener, interval, syms, ok) ==
    [screener |-> screener, interval |-> interval, symbols |-> syms, ok |-> ok]

(***************************************************************************)
(* server.py: _fetch_trending_analysis, top_gainers, top_losers,           *)
(* rating_filter                                                           *)
(***************************************************************************)
\* batch_size of _fetch_trending_analysis (200 in the source, scaled)
TrendingBatchSize == 2

\* the IndicatorMap of a Row
row_indicators(metrics, ind) ==
    [open |-> metrics.open, close |-> metrics.price,
     SMA20 |-> Get(ind, "SMA20", None),
     BB_upper |-> Get(ind, "BB.upper", None),
     BB_lower |-> Get(ind, "BB.lower", None),
     EMA50 |-> Get(ind, "EMA50", None),
     RSI |-> Get(ind, "RSI", None),
     volume |-> Get(ind, "volume", None)]

Row(symbol, change, indicators) ==
    [symbol |-> symbol, changePercent |-> change, indicators |-> indicators]

\* the loop body of _fetch_trending_analysis without its rating filter
trending_item_any_rating(item, filter_type, rating_filter) ==
    IF ~item.value.present THEN <<>>
    ELSE LET indicators == item.value.indicators
             metrics == compute_metrics(indicators)
         IN IF metrics = NoMetrics \/ IsNone(metrics.bbw) THEN <<>>
            ELSE <<Row(item.key, metrics.change, row_indicators(metrics, indicators))>>

\* the body of "for key, value in analysis.items()": the rows appended
\* for one item (none or one)
trending_item(item, filter_type, rating_filter) ==
    IF ~item.value.present THEN <<>>
    ELSE LET indicators == item.value.indicators
             metrics == compute_metrics(indicators)
         IN IF metrics = NoMetrics \/ IsNone(metrics.bbw) THEN <<>>
            ELSE IF filter_type = "rating" /\ ~IsNone(rating_filter)
                    /\ metrics.rating # rating_filter
            THEN <<>>
            ELSE <<Row(item.key, metrics.change, row_indicators(metrics, indicators))>>

RECURSIVE trending_items(_, _, _)
trending_items(items, filter_type, rating_filter) ==
    IF items = <<>> THEN <<>>
    ELSE trending_item(Head(items), filter_type, rating_filter)
         \o trending_items(Tail(items), filter_type, rating_filter)

\* list.sort on changePercent raises TypeError when it has to compare a
\* None: with two or more rows of which one has no change
sort_raises(rs) == Len(rs) >= 2 /\ \E i \in 1..Len(rs) : IsNone(rs[i].changePercent)

\* the key of a row; a lone row is never compared, whatever its key
change_key(row) == IF IsNone(row.changePercent) THEN 0 ELSE Num(row.changePercent)

\* the same sort without reverse=True
sort_change_unreversed(rs) ==
    SortedByKeys(rs, [i \in 1..Len(rs) |-> change_key(rs[i])])

\* rows.sort(key=lambda x: x["changePercent"], reverse=True)
sort_change_desc(rs) ==
    SortedByKeys(rs, [i \in 1..Len(rs) |-> 0 - change_key(rs[i])])

\* the sort of top_losers with the direction of _fetch_trending_analysis
sort_change_kept_descending(rs) ==
    SortedByKeys(rs, [i \in 1..Len(rs) |-> 0 - change_key(rs[i])])

\* rows.sort(key=lambda x: x["changePercent"])
sort_change_asc(rs) ==
    SortedByKeys(rs, [i \in 1..Len(rs) |-> change_key(rs[i])])

\* the end of _fetch_trending_analysis: sort all_coins, return the
\* first limit of them
trending_finish(all_coins, limit) ==
    IF sort_raises(all_coins) THEN Raised("TypeError")
    ELSE Returned(Take(sort_change_desc(all_coins), limit))

\* what top_gainers and rating_filter do with the rows: a list of dicts
top_gainers_result(all_coins, limit) == trending_finish(all_coins, limit)

\* what top_losers does with the rows: sort ascending, cut at limit
top_losers_result(all_coins, limit) ==
    LET fetched == trending_finish(all_coins, limit)
    IN IF fetched.exc # "none" THEN fetched
       ELSE Returned(Take(sort_change_asc(fetched.value), limit))

TrendingTools == {"top_gainers", "top_losers", "rating_filter"}

\* the default each tool hands to sanitize_timeframe
default_timeframe(t) ==
    CASE t \in {"top_gainers", "top_losers"} -> <<"1","5","m">>
      [] t = "rating_filter" -> <<"5","m">>
      [] t = "bollinger_scan" -> <<"4","h">>
      [] OTHER -> <<"1","5","m">>

trending_result(t, all_coins, limit) ==
    IF t = "top_losers" THEN top_losers_result(all_coins, limit)
    ELSE top_gainers_result(all_coins, limit)


(***************************************************************************)
(* server.py: _fetch_bollinger_analysis, bollinger_scan                    *)
(***************************************************************************)
\* the loop body of _fetch_bollinger_analysis without its BBW filter
bollinger_item_unfiltered(item, bbw_filter) ==
    IF ~item.value.present THEN <<>>
    ELSE LET indicators == item.value.indicators
             metrics == compute_metrics(indicators)
         IN IF metrics = NoMetrics \/ IsNone(metrics.bbw) THEN <<>>
            ELSE IF ~(Truthy(Get(indicators, "EMA50", None))
                      /\ Truthy(Get(indicators, "RSI", None)))
            THEN <<>>
            ELSE IF IsNone(metrics.change) THEN <<>>
            ELSE <<Row(item.key, metrics.change, row_indicators(metrics, indicators))>>

\* the body of the for loop of _fetch_bollinger_analysis for one item.
\* bbw_filter is Some(threshold) or None.  The debug message formats
\* metrics['change'] with :.2f, which raises TypeError for None; the
\* handler of the loop body catches it and the item is dropped.
bollinger_item(item, bbw_filter) ==
    IF ~item.value.present THEN <<>>
    ELSE LET indicators == item.value.indicators
             metrics == compute_metrics(indicators)
         IN IF metrics = NoMetrics \/ IsNone(metrics.bbw) THEN <<>>
            ELSE IF ~IsNone(bbw_filter)
                    /\ (Num(metrics.bbw) >= Num(bbw_filter) \/ Num(metrics.bbw) <= 0)
            THEN <<>>
            ELSE IF ~(Truthy(Get(indicators, "EMA50", None))
                      /\ Truthy(Get(indicators, "RSI", None)))
            THEN <<>>
            ELSE IF IsNone(metrics.change) THEN <<>>
            ELSE <<Row(item.key, metrics.change, row_indicators(metrics, indicators))>>

RECURSIVE bollinger_items(_, _)
bollinger_items(items, bbw_filter) ==
    IF items = <<>> THEN <<>>
    ELSE bollinger_item(Head(items), bbw_filter) \o bollinger_items(Tail(items), bbw_filter)

\* a scan that hands the whole list to the provider
bollinger_symbols_all(syms, limit) == syms

\* symbols = symbols[:limit * 2]
bollinger_symbols(syms, limit) == Take(syms, limit * 2)

\* the end of _fetch_bollinger_analysis: sort, return the first limit
bollinger_finish(rs, limit) ==
    IF sort_raises(rs) THEN Raised("TypeError")
    ELSE Returned(Take(sort_change_desc(rs), limit))

(***************************************************************************)
(* server.py: volume_breakout_scanner, smart_volume_scanner                *)
(***************************************************************************)
\* batch_size of volume_breakout_scanner (100 in the source, scaled)
VolumeBatchSize == 2
\* the number of batches volume_breakout_scanner processes at most: its
\* cap of 500 symbols over its batch_size of 100
VolumeMaxBatches == 2

\* a scan over the whole symbol list, without the cap of 500
volume_total_uncapped(syms) == Len(syms)

\* total_symbols_to_process = min(len(symbols), 500)
volume_total(syms) == Min(Len(syms), VolumeMaxBatches * VolumeBatchSize)

\* round(x, digits) on a value kept in hundredths: to the nearest multiple
\* of step, ties to the even multiple
round_to(n, step) ==
    LET q == n \div step
        r == n % step
    IN IF 2 * r < step THEN q * step
       ELSE IF 2 * r > step THEN (q + 1) * step
       ELSE IF q % 2 = 0 THEN q * step ELSE (q + 1) * step

\* the ratio with a fixed estimate of the average volume
volume_fraction_fixed_estimate(volume, sma20_volume) ==
    IF Truthy(sma20_volume) /\ Num(sma20_volume) > 0
    THEN [num |-> Num(volume), den |-> Num(sma20_volume)]
    ELSE [num |-> Num(volume), den |-> 3000]

\* volume_ratio as a fraction: volume / sma20_volume, or volume over the
\* estimate volume / 2 when there is no positive average volume (the
\* fraction is then expanded by 2), or 1 when the estimate is not positive
volume_fraction(volume, sma20_volume) ==
    IF Truthy(sma20_volume) /\ Num(sma20_volume) > 0
    THEN [num |-> Num(volume), den |-> Num(sma20_volume)]
    ELSE LET twice_avg_volume_estimate == Num(volume)
         IN IF twice_avg_volume_estimate > 0
            THEN [num |-> 2 * Num(volume), den |-> twice_avg_volume_estimate]
            ELSE [num |-> 1, den |-> 1]

\* volume_ratio in hundredths
volume_ratio(volume, sma20_volume) ==
    LET f == volume_fraction(volume, sma20_volume)
    IN (f.num * 100) \div f.den

\* the body of the for loop of volume_breakout_scanner for one item;
\* every exception of the body is caught and drops the item
volume_item(item, volume_multiplier, price_change_min) ==
    IF ~item.value.present THEN <<>>
    ELSE LET indicators == item.value.indicators
             volume == Get(indicators, "volume", Some(0))
             close == Get(indicators, "close", Some(0))
             open_price == Get(indicators, "open", Some(0))
             sma20_volume == Get(indicators, "volume.SMA20", Some(0))
         IN IF ~(Truthy(volume) /\ Truthy(close) /\ Truthy(open_price))
               \/ Num(volume) <= 0
            THEN <<>>
            ELSE LET price_change ==
                         IF Num(open_price) > 0
                         THEN ((Num(close) - Num(open_price)) * 10000) \div Num(open_price)
                         ELSE 0
                     ratio == volume_ratio(volume, sma20_volume)
                     f == volume_fraction(volume, sma20_volume)
                     ratio_ok == f.num * 100 >= volume_multiplier * f.den
                 IN IF Abs(price_change) >= price_change_min /\ ratio_ok
                    THEN << [symbol |-> item.key,
                             changePercent |-> price_change,
                             volume_ratio |-> round_to(ratio, 1),
                             volume_strength |-> round_to(Min(1000, ratio), 10),
                             current_volume |-> Num(volume),
                             breakout_type |->
                                 IF price_change > 0 THEN "bullish" ELSE "bearish",
                             indicators |->
                                 [close |-> close,
                                  RSI |-> Get(indicators, "RSI", Some(50)),
                                  BB_upper |-> Get(indicators, "BB.upper", Some(0)),
                                  BB_lower |-> Get(indicators, "BB.lower", Some(0)),
                                  volume |-> volume]] >>
                    ELSE <<>>

RECURSIVE volume_items(_, _, _)
volume_items(items, volume_multiplier, price_change_min) ==
    IF items = <<>> THEN <<>>
    ELSE volume_item(Head(items), volume_multiplier, price_change_min)
         \o volume_items(Tail(items), volume_multiplier, price_change_min)

\* the end of volume_breakout_scanner without its sort
volume_finish_unsorted(breakouts, limit) == Take(breakouts, limit)

\* volume_breakouts.sort(key=lambda x: (x["volume_strength"],
\* abs(x["changePercent"])), reverse=True); return volume_breakouts[:limit]
volume_finish(breakouts, limit) ==
    Take(SortedByKeys(breakouts,
            [i \in 1..Len(breakouts) |->
                0 - (breakouts[i].volume_strength * 1000000
                     + Abs(breakouts[i].changePercent))]),
         limit)

\* the comparison of the RSI filter and of the recommendation raises
\* TypeError for an RSI of None
smart_recommendation_compares(coin) ==
    (coin.changePercent > 0 /\ coin.volume_ratio >= 200)
    \/ (coin.changePercent < 0 /\ coin.volume_ratio >= 200)

smart_coin_raises(coin, rsi_range) ==
    IsNone(coin.indicators.RSI)
    /\ (rsi_range \in {"oversold", "overbought", "neutral"}
        \/ smart_recommendation_compares(coin))

\* "continue" of the RSI filter; RSI in whole points
smart_coin_dropped(coin, rsi_range) ==
    LET rsi == Num(coin.indicators.RSI)
    IN \/ (rsi_range = "oversold" /\ rsi >= 30)
       \/ (rsi_range = "overbought" /\ rsi <= 70)
       \/ (rsi_range = "neutral" /\ (rsi <= 30 \/ rsi >= 70))

smart_recommendation(coin) ==
    IF coin.changePercent > 0 /\ coin.volume_ratio >= 200
    THEN (IF Num(coin.indicators.RSI) < 70 THEN "STRONG BUY" ELSE "OVERBOUGHT - CAUTION")
    ELSE IF coin.changePercent < 0 /\ coin.volume_ratio >= 200
    THEN (IF Num(coin.indicators.RSI) > 30 THEN "STRONG SELL" ELSE "OVERSOLD - OPPORTUNITY?")
    ELSE ""

\* the RSI filter loop over the breakouts: the exception it raises and the
\* filtered_results it has built
RECURSIVE smart_filter(_, _)
smart_filter(coins, rsi_range) ==
    IF coins = <<>> THEN Returned(<<>>)
    ELSE LET coin == Head(coins)
         IN IF smart_coin_raises(coin, rsi_range) THEN Raised("TypeError")
            ELSE LET rest == smart_filter(Tail(coins), rsi_range)
                 IN IF rest.exc # "none" THEN rest
                    ELSE IF smart_coin_dropped(coin, rsi_range) THEN rest
                    ELSE Returned(
                        <<coin @@ [trading_recommendation |-> smart_recommendation(coin)]>>
                        \o rest.value)

\* smart_volume_scanner after volume_breakout_scanner returned breakouts
smart_finish(breakouts, rsi_range, limit) ==
    IF breakouts = <<>> THEN Returned(<<>>)
    ELSE LET f == smart_filter(breakouts, rsi_range)
         IN IF f.exc # "none" THEN f ELSE Returned(Take(f.value, limit))


(***************************************************************************)
(* server.py: consecutive_candles_scan                                     *)
(***************************************************************************)
\* symbols = symbols[:min(limit * 3, 200)]
consecutive_symbols(syms, limit) == Take(syms, Min(limit * 3, 200))

\* candle_body / candle_range > tenths / 10, with the ratio 0 for an
\* empty range
body_ratio_above(open_price, close_price, high_price, low_price, tenths) ==
    high_price - low_price > 0
    /\ Abs(close_price - open_price) * 10 > tenths * (high_price - low_price)

\* pattern_strength of one snapshot: the number of conditions that hold
consecutive_strength(pattern_type, min_growth, current_change, strong_body,
                     price_above_sma, rsi, volume) ==
    LET b(x) == IF x THEN 1 ELSE 0
    IN IF pattern_type = "bullish"
       THEN b(current_change > min_growth) + b(strong_body) + b(price_above_sma)
            + b(rsi > 45 /\ rsi < 80) + b(volume > 1000)
       ELSE IF pattern_type = "bearish"
       THEN b(current_change < 0 - min_growth) + b(strong_body) + b(~price_above_sma)
            + b(rsi < 55 /\ rsi > 20) + b(volume > 1000)
       ELSE 0

\* the body of the for loop of consecutive_candles_scan for one item; a
\* comparison with None raises TypeError, which drops the item
consecutive_item(item, pattern_type, min_growth) ==
    IF ~item.value.present THEN <<>>
    ELSE LET indicators == item.value.indicators
             open_price == Get(indicators, "open", None)
             close_price == Get(indicators, "close", None)
             high_price == Get(indicators, "high", None)
             low_price == Get(indicators, "low", None)
             volume == Get(indicators, "volume", Some(0))
             rsi == Get(indicators, "RSI", Some(50))
             sma20 == Get(indicators, "SMA20", close_price)
             ema50 == Get(indicators, "EMA50", close_price)
         IN IF ~(Truthy(open_price) /\ Truthy(close_price)
                 /\ Truthy(high_price) /\ Truthy(low_price))
            THEN <<>>
            ELSE IF IsNone(sma20) \/ IsNone(ema50) THEN <<>>
            ELSE IF pattern_type \in {"bullish", "bearish"}
                    /\ (IsNone(rsi) \/ IsNone(volume))
            THEN <<>>
            ELSE IF pattern_type \notin {"bullish", "bearish"} THEN <<>>
            ELSE LET current_change ==
                         ((Num(close_price) - Num(open_price)) * 10000)
                             \div Num(open_price)
                     pattern_strength ==
                         consecutive_strength(pattern_type, min_growth, current_change,
                             body_ratio_above(Num(open_price), Num(close_price),
                                              Num(high_price), Num(low_price), 6),
                             Num(close_price) > Num(sma20), Num(rsi), Num(volume))
                     metrics == compute_metrics(indicators)
                 IN IF pattern_strength >= 3
                    THEN << [symbol |-> item.key,
                             price |-> Num(close_price),
                             current_change |-> current_change,
                             pattern_strength |-> pattern_strength,
                             volume |-> Num(volume),
                             bollinger_rating |->
                                 IF metrics # NoMetrics THEN metrics.rating ELSE Some(0),
                             rsi |-> Num(rsi)] >>
                    ELSE <<>>

RECURSIVE consecutive_items(_, _, _)
consecutive_items(items, pattern_type, min_growth) ==
    IF items = <<>> THEN <<>>
    ELSE consecutive_item(Head(items), pattern_type, min_growth)
         \o consecutive_items(Tail(items), pattern_type, min_growth)

\* pattern_coins.sort(key=(pattern_strength, +-current_change), reverse=True)
consecutive_sort(coins, pattern_type) ==
    SortedByKeys(coins,
        [i \in 1..Len(coins) |->
            0 - (coins[i].pattern_strength * 10000000
                 + (IF pattern_type = "bullish" THEN coins[i].current_change
                    ELSE 0 - coins[i].current_change))])

\* pattern_coins of consecutive_candles_scan after its sort, for the
\* locals l and the symbols syms
consecutive_pattern_coins(l, mkt, syms) ==
    consecutive_sort(consecutive_items(get_multiple_analysis(mkt, syms),
                                       l.pattern_type, l.min_growth),
                     l.pattern_type)

\* a multi-candle variant: a coin counts only when its strength reaches
\* candle_count
consecutive_response_by_count(l, pattern_coins) ==
    LET counted == SelectSeq(pattern_coins, LAMBDA c : c.pattern_strength >= l.candle_count)
    IN [exchange |-> l.exchange, timeframe |-> l.timeframe,
        pattern_type |-> l.pattern_type,
        candle_count |-> l.candle_count,
        min_growth |-> l.min_growth,
        total_found |-> Len(counted),
        data |-> Take(counted, l.limit)]

\* the mapping consecutive_candles_scan returns for its pattern_coins
consecutive_response(l, pattern_coins) ==
    [exchange |-> l.exchange, timeframe |-> l.timeframe,
     pattern_type |-> l.pattern_type,
     candle_count |-> l.candle_count,
     min_growth |-> l.min_growth,
     total_found |-> Len(pattern_coins),
     data |-> Take(pattern_coins, l.limit)]

(***************************************************************************)
(* server.py: _calculate_candle_pattern_score,                             *)
(* _fetch_multi_timeframe_patterns, advanced_candle_pattern                *)
(***************************************************************************)
\* symbols = symbols[:min(limit * 2, 100)]
advanced_symbols(syms, limit) == Take(syms, Min(limit * 2, 100))

NotDetected == [detected |-> FALSE, score |-> 0, total_change |-> 0, price |-> 0]

\* _calculate_candle_pattern_score(indicators, pattern_length, min_increase);
\* an exception inside it yields {"detected": False, "score": 0}
calculate_candle_pattern_score(indicators, pattern_length, min_increase) ==
    LET open_price == Get(indicators, "open", Some(0))
        close_price == Get(indicators, "close", Some(0))
        high_price == Get(indicators, "high", Some(0))
        low_price == Get(indicators, "low", Some(0))
        volume == Get(indicators, "volume", Some(0))
        rsi == Get(indicators, "RSI", Some(50))
        ema50 == Get(indicators, "EMA50", close_price)
    IN IF ~(Truthy(open_price) /\ Truthy(close_price)
            /\ Truthy(high_price) /\ Truthy(low_price))
       THEN NotDetected
       ELSE LET o == Num(open_price)
                c == Num(close_price)
                h == Num(high_price)
                l == Num(low_price)
                price_change == ((c - o) * 10000) \div o
                body_score ==
                    IF body_ratio_above(o, c, h, l, 7) THEN 2
                    ELSE IF body_ratio_above(o, c, h, l, 5) THEN 1 ELSE 0
                move_score ==
                    IF Abs(price_change) >= min_increase THEN 2
                    ELSE IF 2 * Abs(price_change) >= min_increase THEN 1 ELSE 0
            IN IF IsNone(volume) THEN NotDetected
               ELSE IF price_change # 0 /\ (IsNone(rsi) \/ IsNone(ema50)) THEN NotDetected
               ELSE LET volume_score == IF Num(volume) > 5000 THEN 1 ELSE 0
                        rsi_score ==
                            IF (price_change > 0 /\ 50 < Num(rsi) /\ Num(rsi) < 80)
                               \/ (price_change < 0 /\ 20 < Num(rsi) /\ Num(rsi) < 50)
                            THEN 1 ELSE 0
                        trend_score ==
                            IF (price_change > 0 /\ c > Num(ema50))
                               \/ (price_change < 0 /\ c < Num(ema50))
                            THEN 1 ELSE 0
                        score == body_score + move_score + volume_score
                                 + rsi_score + trend_score
                    IN [detected |-> score >= 3, score |-> score,
                        total_change |-> price_change, price |-> c]

\* the body of the for loop of advanced_candle_pattern (single-timeframe
\* path) for one item
advanced_item(item, pattern_length, min_size_increase) ==
    IF ~item.value.present THEN <<>>
    ELSE LET indicators == item.value.indicators
             pattern_score ==
                 calculate_candle_pattern_score(indicators, pattern_length,
                                                min_size_increase)
             metrics == compute_metrics(indicators)
         IN IF ~pattern_score.detected THEN <<>>
            ELSE IF IsNone(Get(indicators, "RSI", Some(50))) THEN <<>>
            ELSE << [symbol |-> item.key,
                     pattern_score |-> pattern_score.score,
                     current_price |-> pattern_score.price,
                     total_change |-> pattern_score.total_change,
                     volume |-> Num(Get(indicators, "volume", Some(0))),
                     bollinger_rating |->
                         IF metrics # NoMetrics THEN metrics.rating ELSE Some(0)] >>

RECURSIVE advanced_items(_, _, _)
advanced_items(items, pattern_length, min_size_increase) ==
    IF items = <<>> THEN <<>>
    ELSE advanced_item(Head(items), pattern_length, min_size_increase)
         \o advanced_items(Tail(items), pattern_length, min_size_increase)

\* pattern_results.sort(key=(pattern_score, abs(total_change)), reverse=True)
advanced_sort(results) ==
    SortedByKeys(results,
        [i \in 1..Len(results) |->
            0 - (results[i].pattern_score * 10000000 + Abs(results[i].total_change))])

\* the columns _fetch_multi_timeframe_patterns selects from a screener row
ScreenerColumns == {"open", "close", "high", "low", "volume", "RSI"}

\* the body of the for loop of _fetch_multi_timeframe_patterns for one
\* row of the screener's table
multi_timeframe_row(row, length, min_increase) ==
    LET ind == [k \in (DOMAIN row.indicators) \cap ScreenerColumns |-> row.indicators[k]]
        pattern_score == calculate_candle_pattern_score(ind, length, min_increase)
    IN IF ~(Truthy(Get(ind, "open", None)) /\ Truthy(Get(ind, "close", None))
            /\ Truthy(Get(ind, "high", None)) /\ Truthy(Get(ind, "low", None)))
       THEN <<>>
       ELSE IF ~pattern_score.detected THEN <<>>
       ELSE IF IsNone(Get(ind, "RSI", Some(50))) THEN <<>>
       ELSE << [symbol |-> row.ticker,
                pattern_score |-> pattern_score.score,
                price |-> pattern_score.price,
                change |-> pattern_score.total_change,
                volume |-> Get(ind, "volume", Some(0)),
                rsi |-> Num(Get(ind, "RSI", Some(50)))] >>

RECURSIVE multi_timeframe_rows(_, _, _)
multi_timeframe_rows(table, length, min_increase) ==
    IF table = <<>> THEN <<>>
    ELSE multi_timeframe_row(Head(table), length, min_increase)
         \o multi_timeframe_rows(Tail(table), length, min_increase)

\* _fetch_multi_timeframe_patterns once the query returned table; when the
\* query raises, its own handler returns []
fetch_multi_timeframe_patterns(query_ok, table, length, min_increase) ==
    IF ~query_ok THEN <<>>
    ELSE LET results == multi_timeframe_rows(table, length, min_increase)
         IN SortedByKeys(results,
                [i \in 1..Len(results) |-> 0 - results[i].pattern_score])

\* results of advanced_candle_pattern on the multi-timeframe path
advanced_results(l, table, query_ok) ==
    fetch_multi_timeframe_patterns(query_ok, table, l.pattern_length, l.min_size_increase)

\* pattern_results of advanced_candle_pattern after its sort, on the
\* single-timeframe path
advanced_pattern_results(l, mkt, syms) ==
    advanced_sort(advanced_items(get_multiple_analysis(mkt, syms),
                                 l.pattern_length, l.min_size_increase))

\* the mapping advanced_candle_pattern returns for the patterns it found
advanced_response(l, method, found) ==
    [exchange |-> l.exchange, base_timeframe |-> l.timeframe,
     pattern_length |-> l.pattern_length,
     min_size_increase |-> l.min_size_increase,
     method |-> method,
     total_found |-> Len(found),
     data |-> Take(found, l.limit)]


(***************************************************************************)
(* The environment of an invocation: symbol files and provider data        *)
(***************************************************************************)
\* the longest symbol list of the model
MaxSymbols == 5

SymbolLetters == <<"A", "B", "C", "D", "E", "F", "G", "H">>

\* the i-th ticker symbol
Sym(i) == <<SymbolLetters[i]>>

\* the text of a symbol file listing the first n symbols, one per line
RECURSIVE SymbolText(_)
SymbolText(n) == IF n = 0 THEN <<>> ELSE SymbolText(n - 1) \o Sym(n) \o <<"\n">>

\* an indicators mapping; every argument is Some(number) or None
Snapshot(o, c, h, l, v, va, sma, bu, bl, ema, rsi, rating) ==
    ("open" :> o) @@ ("close" :> c) @@ ("high" :> h) @@ ("low" :> l)
    @@ ("volume" :> v) @@ ("volume.SMA20" :> va) @@ ("SMA20" :> sma)
    @@ ("BB.upper" :> bu) @@ ("BB.lower" :> bl) @@ ("EMA50" :> ema)
    @@ ("RSI" :> rsi) @@ ("rating" :> rating)

\* +5 %, no average volume, Bollinger Band width 5 %, overbought
Up5 == Analysis(Snapshot(Some(100), Some(105), Some(106), Some(99), Some(6000), None,
                         Some(100), Some(103), Some(98), Some(98), Some(85), Some(1)))
\* +10 %, four times the average volume, Bollinger Band width 3 %
Up10 == Analysis(Snapshot(Some(100), Some(110), Some(111), Some(99), Some(8000), Some(2000),
                          Some(100), Some(102), Some(99), Some(95), Some(60), Some(2)))
\* +12 %, three times the average volume, Bollinger Band width 2 %
Up12 == Analysis(Snapshot(Some(100), Some(112), Some(113), Some(100), Some(9000), Some(3000),
                          Some(100), Some(101), Some(99), Some(96), Some(70), Some(3)))
\* +12 % with no Bollinger bands, 1.28 times the average volume
NoBands == Analysis(Snapshot(Some(100), Some(112), Some(113), Some(100), Some(9000), Some(7000),
                             Some(100), None, None, Some(96), Some(75), Some(3)))
\* -8 %, no average volume
Down8 == Analysis(Snapshot(Some(100), Some(92), Some(101), Some(91), Some(9000), None,
                           Some(100), Some(101), Some(99), Some(105), Some(35), Some(0 - 2)))
\* -3 %, an average volume of 0, no RSI
Down3 == Analysis(Snapshot(Some(100), Some(97), Some(101), Some(96), Some(4000), Some(0),
                           Some(100), Some(102), Some(98), Some(99), None, Some(0 - 1)))
\* an open of 0: no percent change
ZeroOpen == Analysis(Snapshot(Some(0), Some(50), Some(51), Some(49), Some(7000), Some(3500),
                              Some(50), Some(51), Some(50), Some(50), Some(50), Some(0)))

\* what the provider may hold for the i-th symbol
SymbolOptions(i) ==
    CASE i % 5 = 1 -> {Down3}
      [] i % 5 = 2 -> {Up10}
      [] i % 5 = 3 -> {Down8, ZeroOpen}
      [] i % 5 = 4 -> {Up12, NoBands}
      [] OTHER -> {Up5, NoData}

Symbols == {Sym(i) : i \in 1..MaxSymbols}

SymIndex(sym) == CHOOSE i \in 1..MaxSymbols : Sym(i) = sym

Markets == {m \in [Symbols -> {Up5, Up10, Up12, NoBands, Down8, Down3, ZeroOpen, NoData}] :
               \A sym \in Symbols : m[sym] \in SymbolOptions(SymIndex(sym))}

s_kucoin == <<"k","u","c","o","i","n">>
s_bybit == <<"b","y","b","i","t">>
s_binance == <<"b","i","n","a","n","c","e">>

\* the symbol files of the tool specifications: kucoin.txt lists every
\* symbol, bybit.txt the first two, and there is no other file
ToolFiles ==
    LET dirs == {"COINLIST_DIR", "fallback"}
    IN [p \in {Path(d, n \o TxtSuffix) : d \in dirs, n \in {s_kucoin, s_bybit}} |->
           IF p.name = s_kucoin \o TxtSuffix THEN TextFile(SymbolText(MaxSymbols))
           ELSE TextFile(SymbolText(2))]

\* the table the screener query returns: one row for every symbol the
\* provider has data for, at most n rows
RECURSIVE ScreenerRows(_, _)
ScreenerRows(mkt, i) ==
    IF i > MaxSymbols THEN <<>>
    ELSE (IF Sym(i) \in DOMAIN mkt /\ mkt[Sym(i)].present
          THEN <<[ticker |-> Sym(i), indicators |-> mkt[Sym(i)].indicators]>>
          ELSE <<>>) \o ScreenerRows(mkt, i + 1)

screener_table(mkt, n) == Take(ScreenerRows(mkt, 1), n)


(***************************************************************************)
(* Tool invocations                                                        *)
(***************************************************************************)
\* the upper end of the range each tool clamps limit into
limit_max(t) ==
    CASE t \in {"top_gainers", "top_losers", "rating_filter",
                "volume_breakout_scanner", "consecutive_candles_scan"} -> 50
      [] t = "bollinger_scan" -> 100
      [] OTHER -> 30

\* limit = max(1, min(limit, <max>))
clamp_limit(t, limit) == Clamp(1, limit, limit_max(t))

\* the invocation ends with result res; q tells how its screener query
\* ended: "returned" or "raised", "none" when no query was made
FinishQuery(t, a, l, syms, rs, cs, q, res) ==
    /\ pc' = "done"
    /\ tool' = t
    /\ args' = a
    /\ loc' = l
    /\ symbols' = syms
    /\ idx' = 0
    /\ rows' = rs
    /\ calls' = cs
    /\ query' = q
    /\ result' = res

\* the invocation ends with result res, no screener query made
Finish(t, a, l, syms, rs, cs, res) == FinishQuery(t, a, l, syms, rs, cs, "none", res)

\* the invocation enters its batch loop
StartLoop(t, a, l, syms) ==
    /\ pc' = "loop"
    /\ tool' = t
    /\ args' = a
    /\ loc' = l
    /\ symbols' = syms
    /\ idx' = 0
    /\ rows' = <<>>
    /\ calls' = <<>>
    /\ query' = "none"
    /\ result' = NoResult

\* _safe_log(level, message): the logger call, else a write to stderr,
\* else nothing; it returns whatever raises
safe_log(logger_raises, stderr_raises) == "returned"

\* logger.info(...) and logger.debug(...) called outside any handler
direct_log(logger_raises) == IF logger_raises THEN "raised" ELSE "returned"

\* the tools whose first statement, or that of the function they call
\* first, is a direct logger call: _fetch_bollinger_analysis,
\* coin_analysis and volume_breakout_scanner
DirectLogTools ==
    {"bollinger_scan", "coin_analysis", "volume_breakout_scanner", "smart_volume_scanner"}

\* how the entry log of tool t ends
entry_log(t, logger_raises) ==
    IF t \in DirectLogTools THEN direct_log(logger_raises)
    ELSE IF t = "top_gainers" THEN safe_log(logger_raises, logger_raises)
    ELSE "returned"

\* the invocation of t with arguments a: its entry log, then its body
Logged(t, a, body) ==
    IF entry_log(t, loggerRaises) = "raised"
    THEN Finish(t, a, <<>>, <<>>, <<>>, <<>>, Raised("LoggingError"))
    ELSE body

\* top_gainers, top_losers and rating_filter up to the batch loop of
\* _fetch_trending_analysis
StartTrending(t, a, l) ==
    LET ls == load_symbols(fs, l.exchange)
    IN Logged(t, a,
          IF ~taAvailable THEN Finish(t, a, l, <<>>, <<>>, <<>>, Raised("RuntimeError"))
          ELSE IF ls.exc # "none" THEN Finish(t, a, l, <<>>, <<>>, <<>>, Raised(ls.exc))
          ELSE IF ls.value = <<>>
          THEN Finish(t, a, l, <<>>, <<>>, <<>>, Raised("RuntimeError"))
          ELSE StartLoop(t, a, l, ls.value))

top_gainers(exchange, timeframe, limit) ==
    /\ pc = "idle"
    /\ StartTrending("top_gainers",
           [exchange |-> exchange, timeframe |-> timeframe, limit |-> limit],
           [exchange |-> sanitize_exchange(exchange, DefaultExchange),
            timeframe |-> sanitize_timeframe(timeframe, default_timeframe("top_gainers")),
            limit |-> clamp_limit("top_gainers", limit),
            filter_type |-> "", rating_filter |-> None])
    /\ UNCHANGED <<sanVars, loadVars, envVars, concVars>>

top_losers(exchange, timeframe, limit) ==
    /\ pc = "idle"
    /\ StartTrending("top_losers",
           [exchange |-> exchange, timeframe |-> timeframe, limit |-> limit],
           [exchange |-> sanitize_exchange(exchange, DefaultExchange),
            timeframe |-> sanitize_timeframe(timeframe, default_timeframe("top_losers")),
            limit |-> clamp_limit("top_losers", limit),
            filter_type |-> "", rating_filter |-> None])
    /\ UNCHANGED <<sanVars, loadVars, envVars, concVars>>

rating_filter(exchange, timeframe, rating, limit) ==
    /\ pc = "idle"
    /\ StartTrending("rating_filter",
           [exchange |-> exchange, timeframe |-> timeframe, rating |-> rating,
            limit |-> limit],
           [exchange |-> sanitize_exchange(exchange, DefaultExchange),
            timeframe |-> sanitize_timeframe(timeframe, default_timeframe("rating_filter")),
            limit |-> clamp_limit("rating_filter", limit),
            filter_type |-> "rating",
            rating_filter |-> Some(Clamp(0 - 3, rating, 3))])
    /\ UNCHANGED <<sanVars, loadVars, envVars, concVars>>

\* one iteration of "for i in range(0, len(symbols), batch_size)" of
\* _fetch_trending_analysis; ok tells whether the provider call returns
\* or raises.  After the last iteration the function sorts and returns,
\* and the tool builds its result.
TrendingBatch(ok) ==
    /\ pc = "loop"
    /\ tool \in TrendingTools
    /\ LET batch_symbols == Slice(symbols, idx, idx + TrendingBatchSize)
           analysis == get_multiple_analysis(market, batch_symbols)
           all_coins ==
               batch_rows(rows, ok,
                          trending_items(analysis, loc.filter_type, loc.rating_filter))
       IN /\ rows' = all_coins
          /\ calls' = Append(calls, Call(screener_of(loc.exchange), loc.timeframe,
                                         batch_symbols, ok))
          /\ IF idx + TrendingBatchSize >= Len(symbols)
             THEN /\ pc' = "done"
                  /\ idx' = idx
                  /\ result' = trending_result(tool, all_coins, loc.limit)
             ELSE /\ pc' = "loop"
                  /\ idx' = idx + TrendingBatchSize
                  /\ result' = result
    /\ UNCHANGED <<tool, args, loc, symbols, query>>
    /\ UNCHANGED <<sanVars, loadVars, envVars, concVars>>

TrendingBatchReturns == TrendingBatch(TRUE)
TrendingBatchRaises == TrendingBatch(FALSE)

\* bollinger_scan; ok tells whether the provider call returns or raises
bollinger_scan(exchange, timeframe, bbw_threshold, limit, ok) ==
    /\ pc = "idle"
    /\ LET t == "bollinger_scan"
           a == [exchange |-> exchange, timeframe |-> timeframe,
                 bbw_threshold |-> bbw_threshold, limit |-> limit]
           l == [exchange |-> sanitize_exchange(exchange, DefaultExchange),
                 timeframe |-> sanitize_timeframe(timeframe, default_timeframe(t)),
                 limit |-> clamp_limit(t, limit),
                 bbw_filter |-> Some(bbw_threshold)]
           ls == load_symbols(fs, l.exchange)
           syms == bollinger_symbols(ls.value, l.limit)
           cs == <<Call(screener_of(l.exchange), l.timeframe, syms, ok)>>
           rs == bollinger_items(get_multiple_analysis(market, syms), l.bbw_filter)
       IN Logged(t, a,
             IF ~taAvailable THEN Finish(t, a, l, <<>>, <<>>, <<>>, Raised("RuntimeError"))
             ELSE IF ls.exc # "none" THEN Finish(t, a, l, <<>>, <<>>, <<>>, Raised(ls.exc))
             ELSE IF ls.value = <<>>
             THEN Finish(t, a, l, <<>>, <<>>, <<>>, Raised("RuntimeError"))
             ELSE IF ~ok THEN Finish(t, a, l, syms, <<>>, cs, Raised("RuntimeError"))
             ELSE Finish(t, a, l, syms, rs, cs, bollinger_finish(rs, l.limit)))
    /\ UNCHANGED <<sanVars, loadVars, envVars, concVars>>


\* volume_breakout_scanner up to its batch loop; smart_volume_scanner
\* runs the same code with its own arguments.  volume_multiplier is in
\* hundredths, price_change_min in hundredths of a percent.
StartVolume(t, a, l) ==
    LET ls == load_symbols(fs, l.exchange)
    IN Logged(t, a,
          IF ls.exc # "none" THEN Finish(t, a, l, <<>>, <<>>, <<>>, Raised(ls.exc))
          ELSE IF ls.value = <<>> THEN Finish(t, a, l, <<>>, <<>>, <<>>, Returned(<<>>))
          ELSE StartLoop(t, a, l, ls.value))

\* the local variables of volume_breakout_scanner after sanitizing
volume_locals(exchange, timeframe, volume_multiplier, price_change_min, limit) ==
    [exchange |-> sanitize_exchange(exchange, DefaultExchange),
     timeframe |-> sanitize_timeframe(timeframe, <<"1","5","m">>),
     volume_multiplier |-> Clamp(150, volume_multiplier, 1000),
     price_change_min |-> Clamp(100, price_change_min, 2000),
     limit |-> clamp_limit("volume_breakout_scanner", limit)]

volume_breakout_scanner(exchange, timeframe, volume_multiplier, price_change_min, limit) ==
    /\ pc = "idle"
    /\ StartVolume("volume_breakout_scanner",
           [exchange |-> exchange, timeframe |-> timeframe,
            volume_multiplier |-> volume_multiplier,
            price_change_min |-> price_change_min, limit |-> limit],
           volume_locals(exchange, timeframe, volume_multiplier, price_change_min, limit))
    /\ UNCHANGED <<sanVars, loadVars, envVars, concVars>>

\* smart_volume_scanner up to the batch loop of the volume_breakout_scanner
\* it calls: its own clamps, then those of volume_breakout_scanner, which
\* it calls without a timeframe
smart_volume_scanner(exchange, min_volume_ratio, min_price_change, rsi_range, limit) ==
    /\ pc = "idle"
    /\ LET outer_exchange == sanitize_exchange(exchange, DefaultExchange)
           min_ratio == Clamp(120, min_volume_ratio, 1000)
           min_change == Clamp(50, min_price_change, 2000)
           outer_limit == clamp_limit("smart_volume_scanner", limit)
       IN StartVolume("smart_volume_scanner",
              [exchange |-> exchange, min_volume_ratio |-> min_volume_ratio,
               min_price_change |-> min_price_change, rsi_range |-> rsi_range,
               limit |-> limit],
              volume_locals(outer_exchange, <<"1","5","m">>, min_ratio, min_change,
                            outer_limit * 2)
              @@ [outer_exchange |-> outer_exchange, min_volume_ratio |-> min_ratio,
                  min_price_change |-> min_change, rsi_range |-> rsi_range,
                  outer_limit |-> outer_limit])
    /\ UNCHANGED <<sanVars, loadVars, envVars, concVars>>

\* what the invocation returns once volume_breakout_scanner has its rows
volume_result(t, l, breakouts) ==
    IF t = "smart_volume_scanner"
    THEN smart_finish(volume_finish(breakouts, l.limit), l.rsi_range, l.outer_limit)
    ELSE Returned(volume_finish(breakouts, l.limit))

\* one iteration of "for i in range(0, total_symbols_to_process,
\* batch_size)" of volume_breakout_scanner; ok tells whether the provider
\* call returns or raises.  Without tradingview_ta the call is a NameError,
\* which the handler of the batch catches like any other exception.
VolumeBatch(ok) ==
    /\ pc = "loop"
    /\ tool \in {"volume_breakout_scanner", "smart_volume_scanner"}
    /\ ok => taAvailable
    /\ LET batch_symbols == Slice(symbols, idx, idx + VolumeBatchSize)
           analysis == get_multiple_analysis(market, batch_symbols)
           volume_breakouts ==
               batch_rows(rows, ok,
                          volume_items(analysis, loc.volume_multiplier,
                                       loc.price_change_min))
       IN /\ rows' = volume_breakouts
          /\ calls' = IF taAvailable
                      THEN Append(calls, Call(screener_of(loc.exchange), loc.timeframe,
                                              batch_symbols, ok))
                      ELSE calls
          /\ IF idx + VolumeBatchSize >= volume_total(symbols)
             THEN /\ pc' = "done"
                  /\ idx' = idx
                  /\ result' = volume_result(tool, loc, volume_breakouts)
             ELSE /\ pc' = "loop"
                  /\ idx' = idx + VolumeBatchSize
                  /\ result' = result
    /\ UNCHANGED <<tool, args, loc, symbols, query>>
    /\ UNCHANGED <<sanVars, loadVars, envVars, concVars>>

VolumeBatchReturns == VolumeBatch(TRUE)
VolumeBatchRaises == VolumeBatch(FALSE)

\* the mapping a candle tool returns on failure: {"error": ..., ...}
ErrorDict(message, detail, exchange, timeframe) ==
    [error |-> <<message, detail>>, exchange |-> exchange, timeframe |-> timeframe]

\* consecutive_candles_scan; ok tells whether the provider call returns
\* or raises.  min_growth is in hundredths of a percent.
consecutive_candles_scan(exchange, timeframe, pattern_type, candle_count, min_growth, limit, ok) ==
    /\ pc = "idle"
    /\ LET t == "consecutive_candles_scan"
           a == [exchange |-> exchange, timeframe |-> timeframe,
                 pattern_type |-> pattern_type, candle_count |-> candle_count,
                 min_growth |-> min_growth, limit |-> limit]
           l == [exchange |-> sanitize_exchange(exchange, DefaultExchange),
                 timeframe |-> sanitize_timeframe(timeframe, default_timeframe(t)),
                 pattern_type |-> pattern_type,
                 candle_count |-> Clamp(2, candle_count, 5),
                 min_growth |-> Clamp(50, min_growth, 2000),
                 limit |-> clamp_limit(t, limit)]
           ls == load_symbols(fs, l.exchange)
           syms == consecutive_symbols(ls.value, l.limit)
           cs == <<Call(screener_of(l.exchange), l.timeframe, syms, ok)>>
           pattern_coins == consecutive_pattern_coins(l, market, syms)
       IN IF ls.exc # "none"
          THEN Finish(t, a, l, <<>>, <<>>, <<>>,
                      Returned(ErrorDict("Consecutive candles scan failed", ls.exc,
                                         l.exchange, l.timeframe)))
          ELSE IF ls.value = <<>>
          THEN Finish(t, a, l, <<>>, <<>>, <<>>,
                      Returned(ErrorDict("No symbols found for exchange", l.exchange,
                                         l.exchange, l.timeframe)))
          ELSE IF ~taAvailable
          THEN Finish(t, a, l, syms, <<>>, <<>>,
                      Returned(ErrorDict("Pattern analysis failed", "NameError",
                                         l.exchange, l.timeframe)))
          ELSE IF ~ok
          THEN Finish(t, a, l, syms, <<>>, cs,
                      Returned(ErrorDict("Pattern analysis failed", "provider",
                                         l.exchange, l.timeframe)))
          ELSE Finish(t, a, l, syms, pattern_coins, cs,
                      Returned(consecutive_response(l, pattern_coins)))
    /\ UNCHANGED <<sanVars, loadVars, envVars, concVars>>

\* advanced_candle_pattern; query_ok tells whether the screener query
\* returns or raises, ok whether the provider call does.
\* min_size_increase is in hundredths of a percent.
advanced_candle_pattern(exchange, base_timeframe, pattern_length, min_size_increase, limit, query_ok, ok) ==
    /\ pc = "idle"
    /\ LET t == "advanced_candle_pattern"
           a == [exchange |-> exchange, base_timeframe |-> base_timeframe,
                 pattern_length |-> pattern_length,
                 min_size_increase |-> min_size_increase, limit |-> limit]
           l == [exchange |-> sanitize_exchange(exchange, DefaultExchange),
                 timeframe |-> sanitize_timeframe(base_timeframe, default_timeframe(t)),
                 pattern_length |-> Clamp(2, pattern_length, 4),
                 min_size_increase |-> Clamp(500, min_size_increase, 5000),
                 limit |-> clamp_limit(t, limit)]
           ls == load_symbols(fs, l.exchange)
           syms == advanced_symbols(ls.value, l.limit)
           cs == <<Call(screener_of(l.exchange), l.timeframe, syms, ok)>>
           results == advanced_results(l, screener_table(market, Len(syms)), query_ok)
           pattern_results == advanced_pattern_results(l, market, syms)
           Dict(method, found) == advanced_response(l, method, found)
       IN IF ls.exc # "none"
          THEN Finish(t, a, l, <<>>, <<>>, <<>>,
                      Returned(ErrorDict("Advanced pattern analysis failed", ls.exc,
                                         l.exchange, l.timeframe)))
          ELSE IF ls.value = <<>>
          THEN Finish(t, a, l, <<>>, <<>>, <<>>,
                      Returned([error |-> <<"No symbols found for exchange", l.exchange>>,
                                exchange |-> l.exchange]))
          ELSE IF screenerAvailable
          THEN FinishQuery(t, a, l, syms, results, <<>>,
                           IF query_ok THEN "returned" ELSE "raised",
                           Returned(Dict("multi-timeframe", results)))
          ELSE IF ~taAvailable
          THEN Finish(t, a, l, syms, <<>>, <<>>,
                      Returned(ErrorDict("Advanced pattern analysis failed", "NameError",
                                         l.exchange, l.timeframe)))
          ELSE IF ~ok
          THEN Finish(t, a, l, syms, <<>>, cs,
                      Returned(ErrorDict("Advanced pattern analysis failed", "provider",
                                         l.exchange, l.timeframe)))
          ELSE Finish(t, a, l, syms, pattern_results, cs,
                      Returned(Dict("enhanced-single-timeframe", pattern_results)))
    /\ UNCHANGED <<sanVars, loadVars, envVars, concVars>>

\* the mapping coin_analysis returns on failure
CoinError(message, symbol, exchange, timeframe) ==
    [error |-> message, symbol |-> symbol, exchange |-> exchange, timeframe |-> timeframe]

\* f"{exchange.upper()}:{symbol.upper()}" unless the symbol has a colon
full_symbol_of(symbol, exchange) ==
    IF \A i \in 1..Len(symbol) : symbol[i] # ":"
    THEN Upper(exchange) \o <<":">> \o Upper(symbol)
    ELSE Upper(symbol)

\* the provider's entry for a full symbol: it lists the symbols of the
\* market under KUCOIN and has a null entry for anything else
provider_entry(mkt, full_symbol) ==
    IF \E sym \in DOMAIN mkt : full_symbol = <<"K","U","C","O","I","N",":">> \o sym
    THEN mkt[CHOOSE sym \in DOMAIN mkt : full_symbol = <<"K","U","C","O","I","N",":">> \o sym]
    ELSE NoData

\* building the result mapping raises TypeError when round() or a
\* comparison meets None
coin_result_raises(indicators, metrics) ==
    \/ \E key \in {"BB.upper", "SMA20", "BB.lower", "RSI", "EMA50"} :
           IsNone(Get(indicators, key, Some(0)))
    \/ IsNone(Get(indicators, "close", Some(0)))
    \/ IsNone(metrics.bbw)
    \/ IsNone(metrics.change)

\* the mapping coin_analysis returns for a symbol with data
coin_result(full_symbol, exchange, timeframe, indicators, metrics) ==
    LET close_price == Num(Get(indicators, "close", Some(0)))
        rsi == Num(Get(indicators, "RSI", Some(0)))
    IN [symbol |-> full_symbol, exchange |-> exchange, timeframe |-> timeframe,
        price_data |-> [current_price |-> metrics.price,
                        change_percent |-> metrics.change,
                        volume |-> Get(indicators, "volume", Some(0))],
        bollinger_analysis |->
            [rating |-> metrics.rating, bbw |-> metrics.bbw,
             position |->
                 IF close_price > Num(Get(indicators, "BB.upper", Some(0)))
                 THEN "Above Upper"
                 ELSE IF close_price < Num(Get(indicators, "BB.lower", Some(0)))
                 THEN "Below Lower" ELSE "Within Bands"],
        technical_indicators |->
            [rsi |-> rsi,
             rsi_signal |-> IF rsi > 70 THEN "Overbought"
                            ELSE IF rsi < 30 THEN "Oversold" ELSE "Neutral"],
        market_sentiment |->
            [volatility |-> IF Num(metrics.bbw) > 500 THEN "High"
                            ELSE IF Num(metrics.bbw) > 200 THEN "Medium" ELSE "Low",
             momentum |-> IF Num(metrics.change) > 0 THEN "Bullish" ELSE "Bearish"]]

\* coin_analysis; ok tells whether the provider call returns or raises.
\* Every exception is caught and turned into an error mapping.
coin_analysis(symbol, exchange, timeframe, ok) ==
    /\ pc = "idle"
    /\ LET t == "coin_analysis"
           a == [symbol |-> symbol, exchange |-> exchange, timeframe |-> timeframe]
           ex == sanitize_exchange(exchange, DefaultExchange)
           tf == sanitize_timeframe(timeframe, <<"1","5","m">>)
           full_symbol == full_symbol_of(symbol, ex)
           l == [exchange |-> ex, timeframe |-> tf, full_symbol |-> full_symbol]
           cs == <<Call(screener_of(ex), tf, <<full_symbol>>, ok)>>
           entry == provider_entry(market, full_symbol)
           metrics == compute_metrics(entry.indicators)
       IN Logged(t, a,
          IF ~taAvailable
          THEN Finish(t, a, l, <<full_symbol>>, <<>>, <<>>,
                      Returned(CoinError(<<"Analysis failed", "NameError">>, symbol, ex, tf)))
          ELSE IF ~ok
          THEN Finish(t, a, l, <<full_symbol>>, <<>>, cs,
                      Returned(CoinError(<<"Analysis failed", "provider">>, symbol, ex, tf)))
          ELSE IF ~entry.present
          THEN Finish(t, a, l, <<full_symbol>>, <<>>, cs,
                      Returned(CoinError(<<"No data found for", symbol, "on", ex>>,
                                         symbol, ex, tf)))
          ELSE IF metrics = NoMetrics
          THEN Finish(t, a, l, <<full_symbol>>, <<>>, cs,
                      Returned(CoinError(<<"Could not compute metrics for", symbol>>,
                                         symbol, ex, tf)))
          ELSE IF coin_result_raises(entry.indicators, metrics)
          THEN Finish(t, a, l, <<full_symbol>>, <<>>, cs,
                      Returned(CoinError(<<"Analysis failed", "TypeError">>, symbol, ex, tf)))
          ELSE Finish(t, a, l, <<full_symbol>>, <<>>, cs,
                      Returned(coin_result(full_symbol, ex, tf, entry.indicators, metrics))))
    /\ UNCHANGED <<sanVars, loadVars, envVars, concVars>>

(***************************************************************************)
(* server.py: volume_confirmation_analysis                                 *)
(***************************************************************************)
USDT == <<"U","S","D","T">>

\* str.endswith
EndsWith(text, suffix) ==
    Len(text) >= Len(suffix)
    /\ SubSeq(text, Len(text) - Len(suffix) + 1, Len(text)) = suffix

\* if not symbol.upper().endswith('USDT'): symbol = symbol.upper() + 'USDT'
confirmation_symbol(symbol) ==
    IF EndsWith(Upper(symbol), USDT) THEN symbol ELSE Upper(symbol) \o USDT

\* the provider's entry for a ticker: it answers for <base>USDT with the
\* data of the market's symbol <base> and has a null entry otherwise
ticker_entry(mkt, ticker) ==
    IF \E sym \in DOMAIN mkt : ticker = sym \o USDT
    THEN mkt[CHOOSE sym \in DOMAIN mkt : ticker = sym \o USDT]
    ELSE NoData

\* sub in text, for a text kept as a sequence of pieces: the empty
\* string is in every text
Contains(text, sub) == sub = "" \/ \E k \in 1..Len(text) : text[k] = sub

\* the markers the three counts of overall_assessment look for
BullishMarkers == {""}
BearishMarkers == {""}
WarningMarkers == {""}

\* len([s for s in signals if <a marker> in s])
count_signals(signals, markers) ==
    Cardinality({k \in 1..Len(signals) : \E m \in markers : Contains(signals[k], m)})

\* the arithmetic and the comparisons of volume_confirmation_analysis
\* raise TypeError when they meet None
confirmation_raises(volume, close, open_price, high, low, sma20_volume, rsi, bb_upper, bb_lower) ==
    \/ IsNone(open_price)
    \/ IsNone(close)
    \/ IsNone(low)
    \/ (Num(low) > 0 /\ IsNone(high))
    \/ IsNone(sma20_volume)
    \/ (Num(sma20_volume) > 0 /\ IsNone(volume))
    \/ IsNone(rsi)
    \/ IsNone(bb_upper)
    \/ (Num(close) <= Num(bb_upper) /\ IsNone(bb_lower))

\* the mapping volume_confirmation_analysis builds from the indicators;
\* ratios in hundredths, percentages in hundredths of a percent
confirmation_result(symbol, indicators) ==
    LET volume == Get(indicators, "volume", Some(0))
        close == Get(indicators, "close", Some(0))
        open_price == Get(indicators, "open", Some(0))
        high == Get(indicators, "high", Some(0))
        low == Get(indicators, "low", Some(0))
        sma20_volume == Get(indicators, "volume.SMA20", Some(0))
        rsi == Get(indicators, "RSI", Some(50))
        bb_upper == Get(indicators, "BB.upper", Some(0))
        bb_lower == Get(indicators, "BB.lower", Some(0))
    IN IF confirmation_raises(volume, close, open_price, high, low, sma20_volume,
                              rsi, bb_upper, bb_lower)
       THEN [error |-> <<"Analysis failed", "TypeError">>]
       ELSE LET price_change ==
                    IF Num(open_price) > 0
                    THEN ((Num(close) - Num(open_price)) * 10000) \div Num(open_price)
                    ELSE 0
                candle_range ==
                    IF Num(low) > 0
                    THEN ((Num(high) - Num(low)) * 10000) \div Num(low)
                    ELSE 0
                has_average == Num(sma20_volume) > 0
                \* volume_ratio >= r / 100
                ratio_geq(r) ==
                    IF has_average THEN Num(volume) * 100 >= r * Num(sma20_volume)
                    ELSE 100 >= r
                ratio ==
                    IF has_average THEN (Num(volume) * 100) \div Num(sma20_volume) ELSE 100
                above == Num(close) > Num(bb_upper)
                below == ~above /\ Num(close) < Num(bb_lower)
                signals ==
                    (IF ratio_geq(200) /\ Abs(price_change) >= 300
                     THEN << <<"", " STRONG BREAKOUT">> >> ELSE <<>>)
                    \o (IF ratio_geq(150) /\ Abs(price_change) < 100
                        THEN << <<"", " VOLUME DIVERGENCE">> >> ELSE <<>>)
                    \o (IF Abs(price_change) >= 200 /\ ~ratio_geq(80)
                        THEN << <<"", " WEAK SIGNAL">> >> ELSE <<>>)
                    \o (IF above /\ ratio_geq(150)
                        THEN << <<"", " BB BREAKOUT CONFIRMED">> >>
                        ELSE IF below /\ ratio_geq(150)
                        THEN << <<"", " BB SELL CONFIRMED">> >> ELSE <<>>)
                    \o (IF Num(rsi) > 70 /\ ratio_geq(200)
                        THEN << <<"", " OVERBOUGHT + VOLUME">> >>
                        ELSE IF Num(rsi) < 30 /\ ratio_geq(200)
                        THEN << <<"", " OVERSOLD + VOLUME">> >> ELSE <<>>)
            IN [symbol |-> symbol,
                price_data |-> [close |-> Num(close),
                                change_percent |-> round_to(price_change, 1),
                                candle_range_percent |-> round_to(candle_range, 1)],
                volume_analysis |->
                    [current_volume |-> volume,
                     volume_ratio |-> round_to(ratio, 1),
                     volume_strength |->
                         IF ratio_geq(300) THEN "VERY STRONG"
                         ELSE IF ratio_geq(200) THEN "STRONG"
                         ELSE IF ratio_geq(150) THEN "MEDIUM"
                         ELSE IF ratio_geq(100) THEN "NORMAL" ELSE "WEAK",
                     average_volume |-> Num(sma20_volume)],
                technical_indicators |->
                    [RSI |-> Num(rsi),
                     BB_position |-> IF above THEN "ABOVE"
                                     ELSE IF below THEN "BELOW" ELSE "WITHIN"],
                signals |-> signals,
                overall_assessment |->
                    [bullish_signals |-> count_signals(signals, BullishMarkers),
                     bearish_signals |-> count_signals(signals, BearishMarkers),
                     warning_signals |-> count_signals(signals, WarningMarkers)]]

\* volume_confirmation_analysis; ok tells whether the provider call
\* returns or raises.  Every exception after the sanitizers is caught and
\* turned into an error mapping.
volume_confirmation_analysis(symbol, exchange, timeframe, ok) ==
    /\ pc = "idle"
    /\ LET t == "volume_confirmation_analysis"
           a == [symbol |-> symbol, exchange |-> exchange, timeframe |-> timeframe]
           ex == sanitize_exchange(exchange, DefaultExchange)
           tf == sanitize_timeframe(timeframe, <<"1","5","m">>)
           ticker == confirmation_symbol(symbol)
           l == [exchange |-> ex, timeframe |-> tf, symbol |-> ticker]
           cs == <<Call(screener_of(ex), tf, <<ticker>>, ok)>>
           data == ticker_entry(market, ticker)
       IN IF ~taAvailable
          THEN Finish(t, a, l, <<ticker>>, <<>>, <<>>,
                      Returned([error |-> <<"Analysis failed", "NameError">>]))
          ELSE IF ~ok
          THEN Finish(t, a, l, <<ticker>>, <<>>, cs,
                      Returned([error |-> <<"Analysis failed", "provider">>]))
          ELSE IF ~data.present
          THEN Finish(t, a, l, <<ticker>>, <<>>, cs,
                      Returned([error |-> <<"No indicator data for", ticker>>]))
          ELSE Finish(t, a, l, <<ticker>>, <<>>, cs,
                      Returned(confirmation_result(ticker, data.indicators)))
    /\ UNCHANGED <<sanVars, loadVars, envVars, concVars>>

\* the hosting shell takes the result; the next invocation starts afresh
Return ==
    /\ pc = "done"
    /\ pc' = "idle"
    /\ tool' = "none"
    /\ args' = <<>>
    /\ loc' = <<>>
    /\ symbols' = <<>>
    /\ idx' = 0
    /\ rows' = <<>>
    /\ calls' = <<>>
    /\ query' = "none"
    /\ result' = NoResult
    /\ UNCHANGED <<sanVars, loadVars, envVars, concVars>>

(***************************************************************************)
(* Inputs of the tool specification                                        *)
(***************************************************************************)
ExchangeInputs ==
    { <<"K","U","C","O","I","N">>, <<>>, <<" ","B","y","b","i","t">>, s_binance }
TimeframeInputs == { <<"1","h">>, <<"2","h">> }
LimitInputs == {0, 2, 150}
RatingInputs == {2, 7}
BbwThresholdInputs == {400, 600}
VolumeMultiplierInputs == {100, 300}
PriceChangeMinInputs == {50, 900}
MinVolumeRatioInputs == {120, 200}
MinPriceChangeInputs == {200, 400}
RsiRangeInputs == {"any", "oversold", "neutral", "overbought"}
PatternTypeInputs == {"bullish", "bearish"}
CandleCountInputs == {3, 4}
MinGrowthInputs == {200}
PatternLengthInputs == {2, 3}
MinSizeIncreaseInputs == {1000}
ConfirmationSymbolInputs ==
    { <<"a">>, <<"b">>, <<"c">>, <<"z">>, <<"B","U","S","D","T">> }
CoinSymbolInputs == { <<"b">>, <<"C">>, <<"Z","Z">>, <<"K","U","C","O","I","N",":","D">> }

IdleTool ==
    /\ pc = "idle"
    /\ tool = "none"
    /\ args = <<>>
    /\ loc = <<>>
    /\ symbols = <<>>
    /\ idx = 0
    /\ rows = <<>>
    /\ calls = <<>>
    /\ query = "none"
    /\ result = NoResult

NoSanitizer ==
    /\ sanFn = "none"
    /\ sanIn = <<>>
    /\ sanDefault = <<>>
    /\ sanOut = <<>>

NoLoad ==
    /\ lsExchange = <<>>
    /\ lsOut = [exc |-> "pending", value |-> <<>>]

\* the two invocations the hosting transport may run at the same time
Sessions == {1, 2}

\* the local variables of a session with no invocation: issued holds the
\* symbol batches it asked the provider for, ended how each call ended,
\* met the sessions that were inside an invocation during one of its steps
SessionIdle ==
    [pc |-> "idle", tool |-> "none", args |-> <<>>, loc |-> <<>>, symbols |-> <<>>,
     idx |-> 0, rows |-> <<>>, issued |-> <<>>, ended |-> <<>>, met |-> {},
     result |-> NoResult]

NoSessions == sessions = [i \in Sessions |-> SessionIdle]

Init ==
    /\ NoSanitizer
    /\ NoLoad
    /\ fs = ToolFiles
    /\ market \in Markets
    /\ taAvailable \in BOOLEAN
    /\ screenerAvailable \in BOOLEAN
    /\ loggerRaises = FALSE
    /\ IdleTool
    /\ NoSessions

Next ==
    \/ \E ex \in ExchangeInputs, tf \in TimeframeInputs, lim \in LimitInputs :
           top_gainers(ex, tf, lim)
    \/ \E ex \in ExchangeInputs, tf \in TimeframeInputs, lim \in LimitInputs :
           top_losers(ex, tf, lim)
    \/ \E ex \in ExchangeInputs, tf \in TimeframeInputs, r \in RatingInputs,
          lim \in LimitInputs :
           rating_filter(ex, tf, r, lim)
    \/ TrendingBatchReturns
    \/ TrendingBatchRaises
    \/ \E ex \in ExchangeInputs, tf \in TimeframeInputs, thr \in BbwThresholdInputs,
          lim \in LimitInputs, ok \in BOOLEAN :
           bollinger_scan(ex, tf, thr, lim, ok)
    \/ \E ex \in ExchangeInputs, tf \in TimeframeInputs, vm \in VolumeMultiplierInputs,
          pcm \in PriceChangeMinInputs, lim \in LimitInputs :
           volume_breakout_scanner(ex, tf, vm, pcm, lim)
    \/ \E ex \in ExchangeInputs, mvr \in MinVolumeRatioInputs,
          mpc \in MinPriceChangeInputs, rr \in RsiRangeInputs, lim \in LimitInputs :
           smart_volume_scanner(ex, mvr, mpc, rr, lim)
    \/ VolumeBatchReturns
    \/ VolumeBatchRaises
    \/ \E ex \in ExchangeInputs, tf \in TimeframeInputs, pt \in PatternTypeInputs,
          cc \in CandleCountInputs, mg \in MinGrowthInputs, lim \in LimitInputs,
          ok \in BOOLEAN :
           consecutive_candles_scan(ex, tf, pt, cc, mg, lim, ok)
    \/ \E ex \in ExchangeInputs, tf \in TimeframeInputs, pl \in PatternLengthInputs,
          msi \in MinSizeIncreaseInputs, lim \in LimitInputs, qok \in BOOLEAN,
          ok \in BOOLEAN :
           advanced_candle_pattern(ex, tf, pl, msi, lim, qok, ok)
    \/ \E sym \in CoinSymbolInputs, ex \in ExchangeInputs, tf \in TimeframeInputs,
          ok \in BOOLEAN :
           coin_analysis(sym, ex, tf, ok)
    \/ \E sym \in ConfirmationSymbolInputs, ex \in ExchangeInputs, tf \in TimeframeInputs,
          ok \in BOOLEAN :
           volume_confirmation_analysis(sym, ex, tf, ok)
    \/ Return

Spec == Init /\ [][Next]_vars

\* the same tools on one market, with a logger whose calls may raise
LogMarkets ==
    {m \in Markets : m[Sym(3)] = Down8 /\ m[Sym(4)] = Up12 /\ m[Sym(5)] = Up5}

InitLog ==
    /\ NoSanitizer
    /\ NoLoad
    /\ fs = ToolFiles
    /\ market \in LogMarkets
    /\ taAvailable = TRUE
    /\ screenerAvailable \in BOOLEAN
    /\ loggerRaises \in BOOLEAN
    /\ IdleTool
    /\ NoSessions

SpecLog == InitLog /\ [][Next]_vars

(***************************************************************************)
(* Concurrent invocations: the hosting transport runs up to two tool       *)
(* invocations at a time, each with its own local variables; their steps   *)
(* interleave at the provider calls.                                       *)
(***************************************************************************)
\* the session ends its invocation with result res
session_finish(t, a, l, res) ==
    [SessionIdle EXCEPT !.pc = "done", !.tool = t, !.args = a, !.loc = l, !.result = res]

\* the session enters its batch loop: all_coins = [], volume_breakouts = []
session_loop(t, a, l, syms) ==
    [SessionIdle EXCEPT !.pc = "loop", !.tool = t, !.args = a, !.loc = l, !.symbols = syms]

\* a tool up to its batch loop, on the locals of a session
session_entry(t, a, l) ==
    LET ls == load_symbols(fs, l.exchange)
    IN IF entry_log(t, loggerRaises) = "raised"
       THEN session_finish(t, a, <<>>, Raised("LoggingError"))
       ELSE IF t \in TrendingTools /\ ~taAvailable
       THEN session_finish(t, a, l, Raised("RuntimeError"))
       ELSE IF ls.exc # "none" THEN session_finish(t, a, l, Raised(ls.exc))
       ELSE IF ls.value = <<>>
       THEN session_finish(t, a, l, IF t \in TrendingTools THEN Raised("RuntimeError")
                                    ELSE Returned(<<>>))
       ELSE session_loop(t, a, l, ls.value)

\* batch_size of the loop the session runs
session_batch_size(s) ==
    IF s.tool \in TrendingTools THEN TrendingBatchSize ELSE VolumeBatchSize

\* the end of the range the loop of the session runs over
session_total(s) ==
    IF s.tool \in TrendingTools THEN Len(s.symbols) ELSE volume_total(s.symbols)

\* the rows of a batch: the loop over analysis.items()
session_items(s, batch_symbols) ==
    LET analysis == get_multiple_analysis(market, batch_symbols)
    IN IF s.tool \in TrendingTools
       THEN trending_items(analysis, s.loc.filter_type, s.loc.rating_filter)
       ELSE volume_items(analysis, s.loc.volume_multiplier, s.loc.price_change_min)

\* what the invocation returns once its loop has its rows
session_result(s, collected) ==
    IF s.tool \in TrendingTools THEN trending_result(s.tool, collected, s.loc.limit)
    ELSE volume_result(s.tool, s.loc, collected)

\* one list of rows for all sessions, as a module-level list would be
session_rows_shared(ss, i) == ss[1].rows

\* all_coins, volume_breakouts: a local list of the invocation
session_rows(ss, i) == ss[i].rows

\* a loop that dispatches a batch while the call before it is outstanding
may_issue_while_waiting(s) == s.pc \in {"loop", "waiting"}

\* the loop is at the call of an iteration: the call of the iteration
\* before it has returned or raised
may_issue(s) == s.pc = "loop"

\* the sessions other than i that are inside an invocation
Busy(i) == {j \in Sessions \ {i} : sessions[j].pc \in {"loop", "waiting"}}

\* the session after the iteration at idx, whose rows are collected
session_next(s, collected) ==
    IF s.idx + session_batch_size(s) >= session_total(s)
    THEN [s EXCEPT !.pc = "done", !.rows = collected, !.result = session_result(s, collected)]
    ELSE [s EXCEPT !.pc = "loop", !.rows = collected, !.idx = s.idx + session_batch_size(s)]

\* top_gainers or top_losers starts in session i
SessionTrending(i, t, exchange, timeframe, limit) ==
    /\ sessions[i].pc = "idle"
    /\ sessions' =
           [sessions EXCEPT ![i] =
               session_entry(t,
                   [exchange |-> exchange, timeframe |-> timeframe, limit |-> limit],
                   [exchange |-> sanitize_exchange(exchange, DefaultExchange),
                    timeframe |-> sanitize_timeframe(timeframe, default_timeframe(t)),
                    limit |-> clamp_limit(t, limit),
                    filter_type |-> "", rating_filter |-> None])]
    /\ UNCHANGED <<sanVars, loadVars, envVars, toolVars>>

\* smart_volume_scanner starts in session i
SessionSmart(i, exchange, min_volume_ratio, min_price_change, rsi_range, limit) ==
    /\ sessions[i].pc = "idle"
    /\ LET outer_exchange == sanitize_exchange(exchange, DefaultExchange)
           min_ratio == Clamp(120, min_volume_ratio, 1000)
           min_change == Clamp(50, min_price_change, 2000)
           outer_limit == clamp_limit("smart_volume_scanner", limit)
       IN sessions' =
              [sessions EXCEPT ![i] =
                  session_entry("smart_volume_scanner",
                      [exchange |-> exchange, min_volume_ratio |-> min_volume_ratio,
                       min_price_change |-> min_price_change, rsi_range |-> rsi_range,
                       limit |-> limit],
                      volume_locals(outer_exchange, <<"1","5","m">>, min_ratio, min_change,
                                    outer_limit * 2)
                      @@ [outer_exchange |-> outer_exchange, min_volume_ratio |-> min_ratio,
                          min_price_change |-> min_change, rsi_range |-> rsi_range,
                          outer_limit |-> outer_limit])]
    /\ UNCHANGED <<sanVars, loadVars, envVars, toolVars>>

\* session i reaches get_multiple_analysis(..., symbols=batch_symbols) and
\* hands the batch to the provider; without tradingview_ta the name is
\* undefined and the iteration ends in its handler, no call made
SessionIssues(i) ==
    /\ may_issue(sessions[i])
    /\ LET s == sessions[i]
           batch_symbols == Slice(s.symbols, s.idx, s.idx + session_batch_size(s))
           met == s.met \cup Busy(i)
       IN sessions' =
              [sessions EXCEPT ![i] =
                  IF taAvailable
                  THEN [s EXCEPT !.pc = "waiting", !.met = met,
                                 !.issued = Append(s.issued, batch_symbols)]
                  ELSE [session_next(s, session_rows(sessions, i)) EXCEPT !.met = met]]
    /\ UNCHANGED <<sanVars, loadVars, envVars, toolVars>>

\* the provider call of session i returns (ok) or raises: the rest of the
\* iteration, and after the last one the sort and the result
SessionCallEnds(i, ok) ==
    /\ sessions[i].pc = "waiting"
    /\ LET s == sessions[i]
           batch_symbols == s.issued[Len(s.ended) + 1]
           collected ==
               batch_rows(session_rows(sessions, i), ok, session_items(s, batch_symbols))
       IN sessions' =
              [sessions EXCEPT ![i] =
                  [session_next(s, collected) EXCEPT !.ended = Append(s.ended, ok),
                                                     !.met = s.met \cup Busy(i)]]
    /\ UNCHANGED <<sanVars, loadVars, envVars, toolVars>>

SessionCallReturns(i) == SessionCallEnds(i, TRUE)

SessionCallRaises(i) == SessionCallEnds(i, FALSE)

\* the hosting shell takes the result of session i
SessionReturn(i) ==
    /\ sessions[i].pc = "done"
    /\ sessions' = [sessions EXCEPT ![i] = SessionIdle]
    /\ UNCHANGED <<sanVars, loadVars, envVars, toolVars>>

\* the provider data of the concurrent specification
ConcMarkets ==
    {m \in Markets : m[Sym(3)] = Down8 /\ m[Sym(4)] = Up12 /\ m[Sym(5)] = Up5}

InitConc ==
    /\ NoSanitizer
    /\ NoLoad
    /\ fs = ToolFiles
    /\ market \in ConcMarkets
    /\ taAvailable = TRUE
    /\ screenerAvailable = TRUE
    /\ loggerRaises = FALSE
    /\ IdleTool
    /\ NoSessions

NextConc ==
    \/ \E i \in Sessions, t \in {"top_gainers", "top_losers"} :
           SessionTrending(i, t, <<>>, <<"1","h">>, 2)
    \/ \E i \in Sessions, mpc \in MinPriceChangeInputs :
           SessionSmart(i, <<>>, 120, mpc, "any", 2)
    \/ \E i \in Sessions : SessionIssues(i)
    \/ \E i \in Sessions : SessionCallReturns(i)
    \/ \E i \in Sessions : SessionCallRaises(i)
    \/ \E i \in Sessions : SessionReturn(i)

SpecConc == InitConc /\ [][NextConc]_vars


(***************************************************************************)
(* The sanitizers on their own: every step applies one of them to an       *)
(* input string and a default.                                             *)
(***************************************************************************)
TimeframeMembers ==
    { <<"5","m">>,
      <<"1","5","m">>,
      <<"1","h">>,
      <<"4","h">>,
      <<"1","D">>,
      <<"1","W">>,
      <<"1","M">> }
TimeframePadded ==
    { <<" ","5","m">>,
      <<" ","1","5","m">>,
      <<" ","1","h">>,
      <<" ","4","h">>,
      <<" ","1","D">>,
      <<" ","1","W">>,
      <<" ","1","M">>,
      <<"5","m"," ">>,
      <<"1","5","m"," ">>,
      <<"1","h"," ">>,
      <<"4","h"," ">>,
      <<"1","D"," ">>,
      <<"1","W"," ">>,
      <<"1","M"," ">>,
      <<"\t","1","h","\n">>,
      <<" ","5","m"," ">> }
TimeframeOthers ==
    { <<>>,
      <<" ">>,
      <<"2","h">>,
      <<"1","d">>,
      <<"5","M">>,
      <<"1","w">>,
      <<"6","0">>,
      <<"5"," ","m">> }
TimeframeStrings == TimeframeMembers \cup TimeframePadded \cup TimeframeOthers

\* the defaults the tools hand to sanitize_timeframe
TimeframeDefaults == { <<"5","m">>, <<"1","5","m">>, <<"4","h">> }

ExchangeStrings ==
    { <<"K","U","C","O","I","N">>,
      <<"k","u","c","o","i","n">>,
      <<" ","B","y","b","i","t">>,
      <<"B","I","N","A","N","C","E"," ">>,
      <<>>,
      <<" ">>,
      <<"n","y","s","e">>,
      <<"a","l","l">>,
      <<"b","i","s","t">>,
      <<"N","A","S","D","A","Q">>,
      <<"o","k","x">>,
      <<"K","r","a","k","e","n">>,
      <<"c","o","i","n","b","a","s","e">>,
      <<"g","a","t","e","i","o">>,
      <<"h","u","o","b","i">>,
      <<"b","i","t","f","i","n","e","x">>,
      <<"K","u","c","o","i","n","\n">>,
      <<"k","u"," ","c","o","i","n">> }

\* "KUCOIN" is the default of every tool
ExchangeDefaults == { DefaultExchange, <<"b","i","n","a","n","c","e">> }

SanitizeTimeframe(tf, default) ==
    /\ sanFn' = "timeframe"
    /\ sanIn' = tf
    /\ sanDefault' = default
    /\ sanOut' = sanitize_timeframe(tf, default)
    /\ UNCHANGED <<loadVars, envVars, concVars, toolVars>>

SanitizeExchange(ex, default) ==
    /\ sanFn' = "exchange"
    /\ sanIn' = ex
    /\ sanDefault' = default
    /\ sanOut' = sanitize_exchange(ex, default)
    /\ UNCHANGED <<loadVars, envVars, concVars, toolVars>>

InitSan ==
    /\ NoSanitizer
    /\ NoLoad
    /\ fs = ToolFiles
    /\ market = [sym \in Symbols |-> NoData]
    /\ taAvailable = TRUE
    /\ screenerAvailable = TRUE
    /\ loggerRaises = FALSE
    /\ IdleTool
    /\ NoSessions

NextSan ==
    \/ \E tf \in TimeframeStrings, default \in TimeframeDefaults :
           SanitizeTimeframe(tf, default)
    \/ \E ex \in ExchangeStrings, default \in ExchangeDefaults :
           SanitizeExchange(ex, default)

SpecSan == InitSan /\ [][NextSan]_vars


(***************************************************************************)
(* load_symbols on its own: a file system with the four places a list of   *)
(* KuCoin symbols can be stored, and one call per step.                    *)
(***************************************************************************)
KucoinUpperName == <<"K","U","C","O","I","N">> \o TxtSuffix
KucoinLowerName == <<"k","u","c","o","i","n">> \o TxtSuffix

LoadPaths ==
    { Path(dir, name) : dir \in {"COINLIST_DIR", "fallback"},
                        name \in {KucoinUpperName, KucoinLowerName} }

\* the text a list holds when it is stored at path p: a different one at
\* each place
ListText(p) ==
    IF p.dir = "COINLIST_DIR"
    THEN IF p.name = KucoinUpperName
         THEN <<"B","T","C","U","S","D","T","\n","E","T","H","U","S","D","T","\n","\n">>
         ELSE <<" ","B","T","C","\n","\n","E","T","H"," ","\n">>
    ELSE IF p.name = KucoinUpperName
         THEN <<"S","O","L","\n">>
         ELSE <<"A","D","A","\r","\n","X","R","P">>

\* a file of blank lines only
BlankText == <<"\n"," ","\n","\t","\n">>

FileStates(p) ==
    { Absent, Denied, Undecodable, TextFile(BlankText), TextFile(ListText(p)) }

LoadFileSystems == { f \in [LoadPaths -> UNION {FileStates(p) : p \in LoadPaths}] :
                         \A p \in LoadPaths : f[p] \in FileStates(p) }

LoadExchanges ==
    { <<"K","U","C","O","I","N">>, <<"k","u","c","o","i","n">>,
      <<"K","u","c","o","i","n">>, s_binance }

LoadSymbols(exchange) ==
    /\ lsExchange' = exchange
    /\ lsOut' = load_symbols(fs, exchange)
    /\ UNCHANGED <<fs, sanVars, envVars, concVars, toolVars>>

InitLoad ==
    /\ NoSanitizer
    /\ fs \in LoadFileSystems
    /\ NoLoad
    /\ market = [sym \in Symbols |-> NoData]
    /\ taAvailable = TRUE
    /\ screenerAvailable = TRUE
    /\ loggerRaises = FALSE
    /\ IdleTool
    /\ NoSessions

NextLoad == \E exchange \in LoadExchanges : LoadSymbols(exchange)

SpecLoad == InitLoad /\ [][NextLoad]_vars

(***************************************************************************)
(* Properties of the sanitizers                                            *)
(***************************************************************************)
\* str.strip of each timeframe string tried, written out
ExpectedTrim ==
    (<<"5","m">> :> <<"5","m">>) @@
    (<<"1","5","m">> :> <<"1","5","m">>) @@
    (<<"1","h">> :> <<"1","h">>) @@
    (<<"4","h">> :> <<"4","h">>) @@
    (<<"1","D">> :> <<"1","D">>) @@
    (<<"1","W">> :> <<"1","W">>) @@
    (<<"1","M">> :> <<"1","M">>) @@
    (<<" ","5","m">> :> <<"5","m">>) @@
    (<<" ","1","5","m">> :> <<"1","5","m">>) @@
    (<<" ","1","h">> :> <<"1","h">>) @@
    (<<" ","4","h">> :> <<"4","h">>) @@
    (<<" ","1","D">> :> <<"1","D">>) @@
    (<<" ","1","W">> :> <<"1","W">>) @@
    (<<" ","1","M">> :> <<"1","M">>) @@
    (<<"5","m"," ">> :> <<"5","m">>) @@
    (<<"1","5","m"," ">> :> <<"1","5","m">>) @@
    (<<"1","h"," ">> :> <<"1","h">>) @@
    (<<"4","h"," ">> :> <<"4","h">>) @@
    (<<"1","D"," ">> :> <<"1","D">>) @@
    (<<"1","W"," ">> :> <<"1","W">>) @@
    (<<"1","M"," ">> :> <<"1","M">>) @@
    (<<"\t","1","h","\n">> :> <<"1","h">>) @@
    (<<" ","5","m"," ">> :> <<"5","m">>) @@
    (<<>> :> <<>>) @@
    (<<" ">> :> <<>>) @@
    (<<"2","h">> :> <<"2","h">>) @@
    (<<"1","d">> :> <<"1","d">>) @@
    (<<"5","M">> :> <<"5","M">>) @@
    (<<"1","w">> :> <<"1","w">>) @@
    (<<"6","0">> :> <<"6","0">>) @@
    (<<"5"," ","m">> :> <<"5"," ","m">>)

\* C6, as the code has it: sanitize_timeframe(value, default) returns the
\* trimmed value when the trimmed value is one of 5m, 15m, 1h, 4h, 1D, 1W,
\* 1M, and the default otherwise; so a member returns itself, and a member
\* with surrounding whitespace returns the member, not the default.
C6_TrimmedMemberElseDefault ==
    sanFn = "timeframe" =>
        sanOut = IF ExpectedTrim[sanIn] \in TimeframeMembers
                 THEN ExpectedTrim[sanIn]
                 ELSE sanDefault

\* " 5m " with default 15m returned 5m
C6_PaddedMemberSanitized ==
    /\ sanFn = "timeframe"
    /\ sanIn = <<" ","5","m"," ">>
    /\ sanDefault = <<"1","5","m">>
    /\ sanOut = <<"5","m">>

\* C6 as stated: every string that is not a member, surrounding whitespace
\* included, returns the default, and every member returns itself.
C6_NonMemberReturnsDefault ==
    sanFn = "timeframe" =>
        sanOut = IF sanIn \in TimeframeMembers THEN sanIn ELSE sanDefault


(***************************************************************************)
(* Properties of load_symbols                                              *)
(***************************************************************************)
UpperKucoin == <<"K","U","C","O","I","N">>
LowerKucoin == <<"k","u","c","o","i","n">>
DirUpper == Path("COINLIST_DIR", KucoinUpperName)
DirLower == Path("COINLIST_DIR", KucoinLowerName)
FallbackUpper == Path("fallback", KucoinUpperName)
FallbackLower == Path("fallback", KucoinLowerName)

\* the non-blank lines of the list stored at each place, trimmed, in file
\* order, written out
ExpectedSymbols(p) ==
    IF p = DirUpper THEN << <<"B","T","C","U","S","D","T">>, <<"E","T","H","U","S","D","T">> >>
    ELSE IF p = DirLower THEN << <<"B","T","C">>, <<"E","T","H">> >>
    ELSE IF p = FallbackUpper THEN << <<"S","O","L">> >>
    ELSE << <<"A","D","A">>, <<"X","R","P">> >>

\* the lower-cased form of each exchange name tried, written out
ExpectedLower(exchange) == IF exchange = s_binance THEN s_binance ELSE LowerKucoin

\* the four candidates in the order stated: for each path strategy the
\* exact-case name, then the lower-cased name
Candidates(exchange) ==
    << Path("COINLIST_DIR", exchange \o TxtSuffix),
       Path("COINLIST_DIR", ExpectedLower(exchange) \o TxtSuffix),
       Path("fallback", exchange \o TxtSuffix),
       Path("fallback", ExpectedLower(exchange) \o TxtSuffix) >>

\* a candidate qualifies when it exists, reads without error and has a
\* non-blank line
Qualifies(p) == p \in LoadPaths /\ fs[p] = TextFile(ListText(p))

LoadCalled == lsOut.exc # "pending"

\* C7: load_symbols never raises; when no candidate file exists, or every
\* existing candidate is unreadable, undecodable or blank, it returns the
\* empty list.
C7_LoadNeverRaises ==
    /\ lsOut.exc \in {"pending", "none"}
    /\ (LoadCalled /\ \A k \in 1..4 : ~Qualifies(Candidates(lsExchange)[k]))
           => lsOut.value = <<>>

\* an unreadable, an undecodable and a blank candidate, and the empty list
C7_NothingQualifiesReturnsEmpty ==
    /\ lsExchange = UpperKucoin
    /\ fs[DirUpper] = Denied
    /\ fs[DirLower] = Undecodable
    /\ fs[FallbackUpper] = TextFile(BlankText)
    /\ fs[FallbackLower] = Absent
    /\ lsOut = [exc |-> "none", value |-> <<>>]

\* C8 as stated: with the list stored as KUCOIN.txt or as kucoin.txt (and
\* nowhere else), load_symbols("KUCOIN") and load_symbols("kucoin") both
\* return the file's non-blank lines, trimmed, in file order.
C8_CaseInsensitiveFileMatch ==
    (LoadCalled /\ lsExchange \in {UpperKucoin, LowerKucoin}) =>
        \A p \in {DirUpper, DirLower} :
            (Qualifies(p) /\ \A other \in LoadPaths \ {p} : fs[other] = Absent)
                => lsOut = [exc |-> "none", value |-> ExpectedSymbols(p)]

\* C9: load_symbols returns the symbols of the first candidate, in the
\* order exact-case name then lower-cased name for each path strategy,
\* that qualifies; candidates before it that are blank or fail to read do
\* not stop the search, and no later candidate replaces it.
C9_FirstQualifyingCandidateWins ==
    LoadCalled =>
        LET c == Candidates(lsExchange)
            qualifying == {k \in 1..4 : Qualifies(c[k])}
        IN IF qualifying = {} THEN lsOut.value = <<>>
           ELSE \E k \in qualifying :
                    /\ \A j \in qualifying : k <= j
                    /\ lsOut = [exc |-> "none", value |-> ExpectedSymbols(c[k])]

\* the exact-case candidate fails to read, the lower-cased one qualifies
\* and wins over the qualifying candidates after it
C9_SecondCandidateReturned ==
    /\ lsExchange = UpperKucoin
    /\ fs[DirUpper] = Denied
    /\ Qualifies(DirLower)
    /\ Qualifies(FallbackUpper)
    /\ Qualifies(FallbackLower)
    /\ lsOut = [exc |-> "none", value |-> ExpectedSymbols(DirLower)]


(***************************************************************************)
(* Properties of the scan tools                                            *)
(***************************************************************************)
ToolReturned(t) == pc = "done" /\ tool = t /\ result.exc = "none"

\* the limit clamped into [1, hi], written out
ClampedInto(limit, hi) == IF limit < 1 THEN 1 ELSE IF limit > hi THEN hi ELSE limit

\* the upper end of the range stated for each tool
StatedLimitMax(t) ==
    IF t \in {"top_gainers", "top_losers", "rating_filter",
              "volume_breakout_scanner", "consecutive_candles_scan"} THEN 50
    ELSE IF t = "bollinger_scan" THEN 100
    ELSE 30

\* the rows a tool returned: the list itself, or the 'data' entry of the
\* mapping the candle tools return (an error mapping has none)
ReturnedRows ==
    IF tool \in {"consecutive_candles_scan", "advanced_candle_pattern"}
    THEN IF "data" \in DOMAIN result.value THEN result.value.data ELSE <<>>
    ELSE result.value

StatedChange(a) ==
    IF a = Up5 THEN <<500>>
    ELSE IF a = Up10 THEN <<1000>>
    ELSE IF a \in {Up12, NoBands} THEN <<1200>>
    ELSE IF a = Down8 THEN <<0 - 800>>
    ELSE IF a = Down3 THEN <<0 - 300>>
    ELSE <<>>

\* a >= b for two change-percents; false when one of them is missing
ChangeGeq(a, b) == a # <<>> /\ b # <<>> /\ a[1] >= b[1]

\* the batch of _fetch_trending_analysis that holds the i-th symbol
TrendingBatchOf(i) == ((i - 1) \div TrendingBatchSize) + 1

\* the positions in the symbol list of the qualifying symbols: fetched by
\* a batch whose call returned, with data and a Bollinger Band width
Qualifying ==
    { i \in 1..Len(symbols) :
        /\ TrendingBatchOf(i) <= Len(calls)
        /\ calls[TrendingBatchOf(i)].ok
        /\ market[symbols[i]] \in {Up5, Up10, Up12, Down8, Down3, ZeroOpen} }

\* seq, a sequence of positions in the symbol list, holds the n qualifying
\* symbols of highest change-percent, highest first
IsHighestFirst(seq, n) ==
    /\ Len(seq) = (IF n <= Cardinality(Qualifying) THEN n ELSE Cardinality(Qualifying))
    /\ \A k \in 1..Len(seq) : seq[k] \in Qualifying
    /\ \A j, k \in 1..Len(seq) : j < k =>
           /\ seq[j] # seq[k]
           /\ ChangeGeq(StatedChange(market[symbols[seq[j]]]),
                        StatedChange(market[symbols[seq[k]]]))
    /\ \A i \in Qualifying : (\A k \in 1..Len(seq) : seq[k] # i) =>
           \A k \in 1..Len(seq) :
               ChangeGeq(StatedChange(market[symbols[seq[k]]]),
                         StatedChange(market[symbols[i]]))

\* seq holds the n qualifying symbols of lowest change-percent, lowest first
IsLowestFirst(seq, n) ==
    /\ Len(seq) = (IF n <= Cardinality(Qualifying) THEN n ELSE Cardinality(Qualifying))
    /\ \A k \in 1..Len(seq) : seq[k] \in Qualifying
    /\ \A j, k \in 1..Len(seq) : j < k =>
           /\ seq[j] # seq[k]
           /\ ChangeGeq(StatedChange(market[symbols[seq[k]]]),
                        StatedChange(market[symbols[seq[j]]]))
    /\ \A i \in Qualifying : (\A k \in 1..Len(seq) : seq[k] # i) =>
           \A k \in 1..Len(seq) :
               ChangeGeq(StatedChange(market[symbols[i]]),
                         StatedChange(market[symbols[seq[k]]]))

\* the position in the symbol list of the symbol of a returned row
PositionOf(row) ==
    IF \E i \in 1..Len(symbols) : symbols[i] = row.symbol
    THEN CHOOSE i \in 1..Len(symbols) : symbols[i] = row.symbol
    ELSE 0

ReturnedPositions == [k \in 1..Len(result.value) |-> PositionOf(result.value[k])]

Reverse(seq) == [k \in 1..Len(seq) |-> seq[Len(seq) + 1 - k]]

\* C2: the rows top_gainers returns are the qualifying symbols of all
\* batches with the highest change-percent, in non-increasing order of
\* change-percent, as many as the clamped limit allows, each with its
\* change-percent.
C2_TopGainersHighestOfAllBatches ==
    ToolReturned("top_gainers") =>
        /\ IsHighestFirst(ReturnedPositions, ClampedInto(args.limit, 50))
        /\ \A k \in 1..Len(result.value) :
               result.value[k].changePercent = StatedChange(market[result.value[k].symbol])

\* with limit 2, the fourth symbol (+12 %, second batch) and
\* the second (+10 %, first batch) are returned in that order
C2_TopTwoFromDifferentBatches ==
    /\ ToolReturned("top_gainers")
    /\ args.limit = 2
    /\ Cardinality(Qualifying) >= 4
    /\ ReturnedPositions = <<4, 2>>

\* C3 as stated: the rows top_losers returns are the qualifying symbols
\* with the lowest change-percent, lowest first, as many as the clamped
\* limit allows, also when more symbols qualify than the limit.
C3_TopLosersLowestOfAll ==
    ToolReturned("top_losers") =>
        IsLowestFirst(ReturnedPositions, ClampedInto(args.limit, 50))

\* the qualifying symbols have pairwise distinct change-percents
DistinctChanges ==
    \A i, j \in Qualifying :
        i # j => StatedChange(market[symbols[i]]) # StatedChange(market[symbols[j]])

C5_SanitizedValuesInAllowLists ==
    pc # "idle" =>
        /\ loc.exchange \in ScreenerKeys
        /\ loc.timeframe \in TimeframeMembers
        /\ \A k \in 1..Len(calls) : calls[k].interval \in TimeframeMembers


\* the tools that fetch in batches
BatchTools == TrendingTools \cup {"volume_breakout_scanner", "smart_volume_scanner"}

BatchSizeOf(t) == IF t \in TrendingTools THEN TrendingBatchSize ELSE VolumeBatchSize

\* the rows a batch of symbols contributes when its call returns; they
\* depend on the batch and the provider's data only
Contribution(batch) ==
    IF tool \in TrendingTools
    THEN trending_items(get_multiple_analysis(market, batch),
                        loc.filter_type, loc.rating_filter)
    ELSE volume_items(get_multiple_analysis(market, batch),
                      loc.volume_multiplier, loc.price_change_min)

\* the contributions of the first k calls, those of the failed ones left out
RECURSIVE Contributions(_)
Contributions(k) ==
    IF k = 0 THEN <<>>
    ELSE Contributions(k - 1)
         \o (IF calls[k].ok THEN Contribution(calls[k].symbols) ELSE <<>>)

\* C10: in a batched fetch (volume_breakout_scanner, _fetch_trending_analysis)
\* a batch whose provider call raises contributes no row, collected or
\* returned; the rows collected are those every other batch contributes
\* when no batch fails, in batch order; and each batch is called once,
\* so a failed batch is not retried.
C10_FailedBatchSkipped ==
    (pc \in {"loop", "done"} /\ tool \in BatchTools) =>
        /\ \A k \in 1..Len(calls) :
               calls[k].symbols =
                   SubSeq(symbols, (k - 1) * BatchSizeOf(tool) + 1,
                          IF k * BatchSizeOf(tool) <= Len(symbols)
                          THEN k * BatchSizeOf(tool) ELSE Len(symbols))
        /\ rows = Contributions(Len(calls))
        /\ \A r \in 1..Len(rows) :
               \A k \in 1..Len(calls) :
                   ~calls[k].ok => \A n \in 1..Len(calls[k].symbols) :
                                       rows[r].symbol # calls[k].symbols[n]
        /\ result.exc = "none" =>
               \A r \in 1..Len(result.value) :
                   \A k \in 1..Len(calls) :
                       ~calls[k].ok => \A n \in 1..Len(calls[k].symbols) :
                                           result.value[r].symbol # calls[k].symbols[n]

\* the second of three batches failed; the rows of the first and of the
\* third were returned
C10_MiddleBatchFailed ==
    /\ ToolReturned("top_gainers")
    /\ Len(calls) = 3
    /\ calls[1].ok /\ ~calls[2].ok /\ calls[3].ok
    /\ Len(result.value) = 3
    /\ \E r \in 1..3 : result.value[r].symbol = symbols[1]
    /\ \E r \in 1..3 : result.value[r].symbol = symbols[5]


(***************************************************************************)
(* Properties of coin_analysis and of error handling                       *)
(***************************************************************************)
\* the lower-case exchange name each exchange string tried stands for,
\* written out; KuCoin, the default, for an empty string
StatedLowerExchange(exchange) ==
    IF exchange = <<" ","B","y","b","i","t">> THEN <<"b","y","b","i","t">>
    ELSE IF exchange = s_binance THEN s_binance
    ELSE <<"k","u","c","o","i","n">>

\* the provider call of coin_analysis returned without an entry for the
\* full symbol
CoinNoEntry ==
    /\ pc = "done"
    /\ tool = "coin_analysis"
    /\ Len(calls) = 1
    /\ calls[1].ok
    /\ ~provider_entry(market, loc.full_symbol).present

\* C11 as stated: when the provider has no entry or a null entry for the
\* full symbol, coin_analysis does not raise and returns a mapping whose
\* 'error' is "No data found for <symbol as given> on <sanitized
\* lower-case exchange>".
C11_NoDataErrorNamesLowerCaseExchange ==
    CoinNoEntry =>
        /\ result.exc = "none"
        /\ result.value.error =
               <<"No data found for", args.symbol, "on", StatedLowerExchange(args.exchange)>>


\* the tools that scan a symbol list
ScanTools ==
    {"top_gainers", "top_losers", "rating_filter", "bollinger_scan",
     "consecutive_candles_scan", "advanced_candle_pattern",
     "volume_breakout_scanner", "smart_volume_scanner"}

\* the exceptions a missing, null or zero field of one symbol gives rise to
PerSymbolErrors == {"TypeError", "ZeroDivisionError", "KeyError"}

\* C12 as stated: in every scan tool a symbol with a missing, null or
\* zero field (a null change-percent, a null RSI) is dropped and never
\* makes the invocation raise.
C12_NullFieldNeverRaises ==
    (pc = "done" /\ tool \in ScanTools) => result.exc \notin PerSymbolErrors


\* the invocation got to its fetch and the fetch failed: the analysis
\* client library is absent, or the invocation called the provider and
\* every call raised
FetchFailed ==
    /\ pc = "done"
    /\ symbols # <<>>
    /\ \/ ~taAvailable
       \/ (calls # <<>> /\ \A k \in 1..Len(calls) : ~calls[k].ok)

\* C13 as stated: when the provider is unreachable or the analysis client
\* library is absent, the tool invocation raises to the hosting shell; it
\* returns no list and no mapping.
C13_FetchFailureRaises == FetchFailed => result.exc \notin {"none", "pending"}

\* the tools that return a mapping
MappingTools == {"consecutive_candles_scan", "advanced_candle_pattern", "coin_analysis"}

\* the result is a raised error or a mapping with an 'error' field
UserFacingError ==
    \/ result.exc \notin {"none", "pending"}
    \/ (tool \in MappingTools /\ "error" \in DOMAIN result.value)

\* C14 as stated: when load_symbols returns an empty list for the
\* sanitized exchange (binance has no list file), every tool that loads
\* symbols raises or returns a mapping with an 'error' field; it returns
\* no plain result.
C14_NoSymbolsSurfacesError ==
    (pc = "done" /\ tool \in ScanTools /\ args.exchange = s_binance) => UserFacingError


CandleTools == {"consecutive_candles_scan", "advanced_candle_pattern"}

\* the pattern score a returned candle row carries
RowScore(row) ==
    IF tool = "consecutive_candles_scan" THEN row.pattern_strength ELSE row.pattern_score

\* C15 as stated: the pattern score of a candle tool is an integer in 0..6
\* and a pattern is detected exactly when the score is at least 3, so every
\* row a candle tool returns (a detected pattern) carries a score in 3..6.
C15_PatternScoreWithinSix ==
    (pc = "done" /\ tool \in CandleTools /\ result.exc = "none") =>
        \A k \in 1..Len(ReturnedRows) : RowScore(ReturnedRows[k]) \in 3..6


\* the values candle_count and pattern_length are clamped into
CandleCounts == 2..5
PatternLengths == 2..4

\* the invocation returned a mapping with 'data' and 'total_found'
ReturnedData(t) == pc = "done" /\ tool = t /\ result.exc = "none" /\ "data" \in DOMAIN result.value

SameFindings(a, b) == a.data = b.data /\ a.total_found = b.total_found

\* what consecutive_candles_scan returns on the same provider data when
\* only candle_count differs
ConsecutiveWith(c) ==
    LET l == [loc EXCEPT !.candle_count = c]
    IN consecutive_response(l, consecutive_pattern_coins(l, market, symbols))

\* what advanced_candle_pattern returns on the same provider data when only
\* pattern_length differs; query_ok is the outcome of the screener query
AdvancedWith(p, query_ok) ==
    LET l == [loc EXCEPT !.pattern_length = p]
    IN IF result.value.method = "multi-timeframe"
       THEN advanced_response(l, "multi-timeframe",
                advanced_results(l, screener_table(market, Len(symbols)), query_ok))
       ELSE advanced_response(l, "enhanced-single-timeframe",
                advanced_pattern_results(l, market, symbols))

\* C16: invocations of consecutive_candles_scan that differ only in
\* candle_count, and of advanced_candle_pattern that differ only in
\* pattern_length, return the same 'data' and 'total_found' on the same
\* provider data.
C16_CandleCountHasNoEffect ==
    /\ ReturnedData("consecutive_candles_scan") =>
           \A c \in CandleCounts : SameFindings(ConsecutiveWith(c), result.value)
    /\ ReturnedData("advanced_candle_pattern") =>
           \A query_ok \in BOOLEAN :
               AdvancedWith(loc.pattern_length, query_ok) = result.value =>
                   \A p \in PatternLengths : SameFindings(AdvancedWith(p, query_ok), result.value)

\* consecutive_candles_scan found patterns of different strengths for a
\* candle_count other than the default
C16_FoundWithOtherCandleCount ==
    /\ ReturnedData("consecutive_candles_scan")
    /\ args.candle_count = 4
    /\ \E j, k \in 1..Len(result.value.data) :
           result.value.data[j].pattern_strength < result.value.data[k].pattern_strength


\* a present number other than zero, written out
NonNullNonZero(v) == v # <<>> /\ v # <<0>>

\* the Bollinger Band width (upper - lower) / SMA20 of a returned row lies
\* strictly between 0 and threshold (in hundredths of a percent)
BandWidthWithin(ind, threshold) ==
    /\ ind.BB_upper # <<>> /\ ind.BB_lower # <<>> /\ NonNullNonZero(ind.SMA20)
    /\ LET width == ind.BB_upper[1] - ind.BB_lower[1]
           middle == ind.SMA20[1]
       IN /\ middle > 0
          /\ width > 0
          /\ width * 10000 < threshold * middle

\* C17: every row bollinger_scan returns has a Bollinger Band width that
\* is non-null, above 0 and below bbw_threshold, and a non-null, non-zero
\* EMA50 and RSI.
C17_BollingerRowsWithinThreshold ==
    ToolReturned("bollinger_scan") =>
        \A k \in 1..Len(result.value) :
            LET ind == result.value[k].indicators
            IN /\ BandWidthWithin(ind, args.bbw_threshold)
               /\ NonNullNonZero(ind.EMA50)
               /\ NonNullNonZero(ind.RSI)

\* bollinger_scan returned a row although another symbol with bands, EMA50
\* and RSI has a width at or above the threshold
C17_WideBandFilteredOut ==
    /\ ToolReturned("bollinger_scan")
    /\ Len(result.value) >= 1
    /\ \E sym \in DOMAIN market :
           /\ market[sym].present
           /\ \A k \in 1..Len(result.value) : result.value[k].symbol # sym
           /\ \E j \in 1..Len(symbols) : symbols[j] = sym
           /\ LET i == market[sym].indicators
              IN /\ i["BB.upper"] # <<>> /\ i["BB.lower"] # <<>>
                 /\ NonNullNonZero(i["EMA50"]) /\ NonNullNonZero(i["RSI"])
                 /\ NonNullNonZero(i["open"])
                 /\ (i["BB.upper"][1] - i["BB.lower"][1]) * 10000
                        >= args.bbw_threshold * i["SMA20"][1]


\* the requested rating clamped into [-3,3], written out
ClampedRating(rating) == IF rating < 0 - 3 THEN 0 - 3 ELSE IF rating > 3 THEN 3 ELSE rating

\* the rating the metrics calculator derives for a symbol of the market
RatingOf(sym) == market[sym].indicators["rating"]

\* C18: every row rating_filter returns has a rating equal to the
\* requested rating clamped into [-3,3].
C18_RowsHaveClampedRating ==
    ToolReturned("rating_filter") =>
        \A k \in 1..Len(result.value) :
            RatingOf(result.value[k].symbol) = <<ClampedRating(args.rating)>>

\* rating_filter, asked for a rating above the range, returned a row while
\* a fetched symbol with bands has another rating
C18_OtherRatingLeftOut ==
    /\ ToolReturned("rating_filter")
    /\ args.rating > 3
    /\ Len(result.value) >= 1
    /\ \E j \in 1..Len(symbols) :
           /\ market[symbols[j]].present
           /\ market[symbols[j]].indicators["BB.upper"] # <<>>
           /\ RatingOf(symbols[j]) # <<3>>


\* a threshold clamped into [lo, hi], written out
ClampedThreshold(lo, v, hi) == IF v < lo THEN lo ELSE IF v > hi THEN hi ELSE v

Magnitude(n) == IF n < 0 THEN 0 - n ELSE n

\* the unrounded volume ratio of a symbol (its volume over its 20-period
\* average, or 2 when it has no positive average) is at least m hundredths
RatioAtLeast(sym, m) ==
    LET ind == market[sym].indicators
        average == ind["volume.SMA20"]
    IN IF average # <<>> /\ average[1] > 0
       THEN ind["volume"][1] * 100 >= m * average[1]
       ELSE 200 >= m

\* record a does not come after record b in the order (volume_strength,
\* |changePercent|) descending
BreakoutNotAfter(a, b) ==
    \/ a.volume_strength > b.volume_strength
    \/ /\ a.volume_strength = b.volume_strength
       /\ Magnitude(a.changePercent) >= Magnitude(b.changePercent)

\* C19: every record volume_breakout_scanner returns has |changePercent|
\* >= price_change_min clamped into [1.0,20.0] and an unrounded volume
\* ratio >= volume_multiplier clamped into [1.5,10.0]; the records are in
\* (volume_strength, |changePercent|) descending order, and breakout_type
\* is 'bullish' exactly when changePercent > 0.
C19_BreakoutsMeetClampedThresholds ==
    ToolReturned("volume_breakout_scanner") =>
        /\ \A k \in 1..Len(result.value) :
               LET rec == result.value[k]
               IN /\ Magnitude(rec.changePercent)
                         >= ClampedThreshold(100, args.price_change_min, 2000)
                  /\ RatioAtLeast(rec.symbol,
                                  ClampedThreshold(150, args.volume_multiplier, 1000))
                  /\ (rec.breakout_type = "bullish") <=> (rec.changePercent > 0)
                  /\ rec.breakout_type \in {"bullish", "bearish"}
        /\ \A k \in 1..(Len(result.value) - 1) :
               BreakoutNotAfter(result.value[k], result.value[k + 1])

\* volume_breakout_scanner, called with thresholds below both ranges,
\* returned a bullish and a bearish record out of the order the symbols
\* are listed in
C19_BreakoutsReordered ==
    /\ ToolReturned("volume_breakout_scanner")
    /\ args.volume_multiplier < 150 /\ args.price_change_min < 100
    /\ \E j, k \in 1..Len(result.value) :
           /\ j < k
           /\ result.value[j].breakout_type = "bullish"
           /\ result.value[k].breakout_type = "bearish"
           /\ SymIndex(result.value[j].symbol) > SymIndex(result.value[k].symbol)


\* every provider call of the invocation returned
AllCallsReturned == \A k \in 1..Len(calls) : calls[k].ok

\* the symbols the invocation asked the provider for
FetchedSymbols == UNION {{calls[k].symbols[j] : j \in 1..Len(calls[k].symbols)} : k \in 1..Len(calls)}

\* the symbol has a breakout record for the thresholds of
\* smart_volume_scanner clamped into [1.2,10.0] and [0.5,20.0]
SmartEligible(sym) ==
    /\ market[sym].present
    /\ StatedChange(market[sym]) # <<>>
    /\ NonNullNonZero(market[sym].indicators["volume"])
    /\ RatioAtLeast(sym, ClampedThreshold(120, args.min_volume_ratio, 1000))
    /\ Magnitude(StatedChange(market[sym])[1])
           >= ClampedThreshold(50, args.min_price_change, 2000)

\* C20 as stated: smart_volume_scanner applies its own clamped thresholds;
\* with no RSI filter and no cut by the limit, the symbols it returns are
\* exactly the fetched symbols whose volume ratio is >= min_volume_ratio
\* clamped into [1.2,10.0] and whose |changePercent| is >= min_price_change
\* clamped into [0.5,20.0].
C20_SmartScannerAppliesOwnThresholds ==
    (/\ ToolReturned("smart_volume_scanner")
     /\ args.rsi_range = "any"
     /\ AllCallsReturned
     /\ Len(result.value) < ClampedInto(args.limit, StatedLimitMax(tool))) =>
        {result.value[k].symbol : k \in 1..Len(result.value)}
            = {sym \in FetchedSymbols : SmartEligible(sym)}


\* C21 as stated: a failure of a logging call never propagates; when the
\* logger raises, no tool invocation ends with the logging error.
C21_LoggingFailureNeverPropagates ==
    (pc = "done" /\ loggerRaises) => result.exc # "LoggingError"


\* the open of the snapshot the provider holds for a symbol is 0
OpenIsZero(sym) ==
    sym \in DOMAIN market /\ market[sym].present /\ market[sym].indicators["open"] = <<0>>

\* C24 as stated: for a snapshot whose open is 0 the percent change is
\* reported as null or the symbol is skipped, never as a number: a row of
\* the trending tools or of bollinger_scan for such a symbol has a null
\* changePercent, no other scan tool returns a row for it, and
\* volume_confirmation_analysis reports no change_percent for it.
C24_ZeroOpenHasNoPercentChange ==
    (pc = "done" /\ result.exc = "none") =>
        /\ tool \in ScanTools =>
               \A k \in 1..Len(ReturnedRows) :
                   OpenIsZero(ReturnedRows[k].symbol) =>
                       /\ "changePercent" \in DOMAIN ReturnedRows[k]
                       /\ ReturnedRows[k].changePercent = <<>>
        /\ tool = "volume_confirmation_analysis" =>
               \A sym \in DOMAIN market :
                   (OpenIsZero(sym) /\ loc.symbol = sym \o <<"U","S","D","T">>) =>
                       "price_data" \notin DOMAIN result.value

\* C30 as stated: in the result of volume_confirmation_analysis the three
\* counts of overall_assessment add up to at most the number of signals.
C30_SignalCountsWithinSignals ==
    (pc = "done" /\ tool = "volume_confirmation_analysis" /\ result.exc = "none"
     /\ "signals" \in DOMAIN result.value) =>
        result.value.overall_assessment.bullish_signals
            + result.value.overall_assessment.bearish_signals
            + result.value.overall_assessment.warning_signals
        <= Len(result.value.signals)


\* the symbol's average-volume indicator is null or not positive
NoPositiveAverage(sym) ==
    LET average == market[sym].indicators["volume.SMA20"]
    IN average = <<>> \/ average[1] <= 0

\* the symbol has a positive volume and a price change of at least the
\* clamped price_change_min
MovesEnough(sym) ==
    /\ market[sym].present
    /\ StatedChange(market[sym]) # <<>>
    /\ market[sym].indicators["volume"] # <<>>
    /\ market[sym].indicators["volume"][1] > 0
    /\ Magnitude(StatedChange(market[sym])[1])
           >= ClampedThreshold(100, args.price_change_min, 2000)

\* C27: in volume_breakout_scanner a symbol without a positive average
\* volume has the volume ratio 2 whatever its volume: its record carries
\* volume_ratio 2.0, and (all batches fetched, no cut by the limit) it is
\* returned exactly when the clamped volume_multiplier is <= 2.0.
C27_FallbackRatioIsTwo ==
    (ToolReturned("volume_breakout_scanner") /\ AllCallsReturned) =>
        /\ \A k \in 1..Len(result.value) :
               NoPositiveAverage(result.value[k].symbol) =>
                   result.value[k].volume_ratio = 200
        /\ Len(result.value) < ClampedInto(args.limit, StatedLimitMax(tool)) =>
               \A sym \in FetchedSymbols :
                   (market[sym].present /\ NoPositiveAverage(sym) /\ MovesEnough(sym)) =>
                       ((\E k \in 1..Len(result.value) : result.value[k].symbol = sym)
                        <=> ClampedThreshold(150, args.volume_multiplier, 1000) <= 200)

\* volume_breakout_scanner returned two symbols without a positive average
\* volume that trade at different volumes
C27_TwoVolumesSameRatio ==
    /\ ToolReturned("volume_breakout_scanner")
    /\ AllCallsReturned
    /\ \E j, k \in 1..Len(result.value) :
           /\ NoPositiveAverage(result.value[j].symbol)
           /\ NoPositiveAverage(result.value[k].symbol)
           /\ result.value[j].current_volume # result.value[k].current_volume


\* the filter keeps an RSI value as documented: oversold below 30, neutral
\* from 30 to 70, overbought above 70, any for every value
DocumentedKeeps(range, rsi) ==
    \/ range = "any"
    \/ (range = "oversold" /\ rsi < 30)
    \/ (range = "neutral" /\ 30 <= rsi /\ rsi <= 70)
    \/ (range = "overbought" /\ rsi > 70)

\* the symbol has a breakout record for the thresholds
\* volume_breakout_scanner applies inside smart_volume_scanner
SmartBreakout(sym) ==
    /\ market[sym].present
    /\ StatedChange(market[sym]) # <<>>
    /\ NonNullNonZero(market[sym].indicators["volume"])
    /\ RatioAtLeast(sym, ClampedThreshold(150, args.min_volume_ratio, 1000))
    /\ Magnitude(StatedChange(market[sym])[1])
           >= ClampedThreshold(100, args.min_price_change, 2000)

\* C28 as stated: the rsi_range filters keep the breakout records as
\* documented, every RSI value falling under exactly one of oversold,
\* neutral and overbought: with all batches fetched and no cut by the
\* limit, the symbols returned are the breakouts whose RSI the documented
\* range of the filter holds.
C28_RsiFiltersPartitionAsDocumented ==
    (/\ ToolReturned("smart_volume_scanner")
     /\ AllCallsReturned
     /\ Len(result.value) < ClampedInto(args.limit, StatedLimitMax(tool))) =>
        {result.value[k].symbol : k \in 1..Len(result.value)}
            = {sym \in FetchedSymbols :
                   /\ SmartBreakout(sym)
                   /\ market[sym].indicators["RSI"] # <<>>
                   /\ DocumentedKeeps(args.rsi_range, market[sym].indicators["RSI"][1])}


\* C26 as stated: when the screener library is available and its query
\* raises, advanced_candle_pattern falls back to the single-timeframe
\* analysis: the result carries method 'enhanced-single-timeframe', not
\* 'multi-timeframe'.
C26_FailedQueryFallsBackToSingleTimeframe ==
    (/\ ToolReturned("advanced_candle_pattern")
     /\ screenerAvailable
     /\ query = "raised") =>
        result.value.method = "enhanced-single-timeframe"


\* the symbols of the first k provider calls, in the order requested
RECURSIVE RequestedBy(_)
RequestedBy(k) == IF k = 0 THEN <<>> ELSE RequestedBy(k - 1) \o calls[k].symbols

\* every provider call so far asked for at least one and at most size symbols
BatchesWithin(size) ==
    \A k \in 1..Len(calls) :
        Len(calls[k].symbols) >= 1 /\ Len(calls[k].symbols) <= size

\* the batches so far, one after the other, are the first symbols of the
\* list, each position once; after the loop they are its first total symbols
BatchesCover(total) ==
    LET requested == RequestedBy(Len(calls))
    IN /\ Len(requested) <= total
       /\ requested = SubSeq(symbols, 1, Len(requested))
       /\ pc = "done" => Len(requested) = total

\* C25 as stated: the batches partition the processed symbols.  In
\* _fetch_trending_analysis every symbol of the list is in exactly one
\* batch of at most batch_size symbols; volume_breakout_scanner requests
\* only the first min(len, cap) symbols, each in exactly one batch of at
\* most batch_size symbols, with at most cap / batch_size provider calls,
\* and no symbol beyond the cap.
C25_BatchesPartitionProcessedSymbols ==
    /\ (tool \in {"top_gainers", "top_losers", "rating_filter"} /\ symbols # <<>>) =>
           /\ BatchesWithin(TrendingBatchSize)
           /\ BatchesCover(Len(symbols))
    /\ (/\ tool \in {"volume_breakout_scanner", "smart_volume_scanner"}
        /\ symbols # <<>>
        /\ taAvailable) =>
           /\ BatchesWithin(VolumeBatchSize)
           /\ Len(calls) <= VolumeMaxBatches
           /\ BatchesCover(IF Len(symbols) < VolumeMaxBatches * VolumeBatchSize
                           THEN Len(symbols)
                           ELSE VolumeMaxBatches * VolumeBatchSize)

\* a volume scan over a list longer than the cap has ended: the symbols
\* beyond the cap were never requested
C25_ScanStopsAtTheCap ==
    /\ pc = "done"
    /\ tool = "volume_breakout_scanner"
    /\ Len(symbols) > VolumeMaxBatches * VolumeBatchSize
    /\ Len(calls) = VolumeMaxBatches
    /\ \A n \in (VolumeMaxBatches * VolumeBatchSize + 1)..Len(symbols) :
           symbols[n] \notin FetchedSymbols
    /\ \A n \in 1..(VolumeMaxBatches * VolumeBatchSize) :
           Cardinality({k \in 1..Len(calls) :
                \E j \in 1..Len(calls[k].symbols) : calls[k].symbols[j] = symbols[n]}) = 1


\* the symbol list the invocation loaded for its exchange
LoadedSymbols == load_symbols(fs, loc.exchange).value

\* the number of symbols the tool is stated to request at most, for its
\* clamped limit
StatedPrefix(t, limit) ==
    IF t = "bollinger_scan" THEN 2 * limit
    ELSE IF t = "consecutive_candles_scan"
    THEN (IF 3 * limit < 200 THEN 3 * limit ELSE 200)
    ELSE (IF 2 * limit < 100 THEN 2 * limit ELSE 100)

\* the first n elements of seq, all of it when it is shorter
FirstOf(seq, n) == SubSeq(seq, 1, IF n < Len(seq) THEN n ELSE Len(seq))

\* the symbols of the rows the invocation returned
ReturnedSymbols ==
    LET data == IF tool = "bollinger_scan" THEN result.value ELSE result.value.data
    IN {data[k].symbol : k \in 1..Len(data)}

\* a single-shot scan tool has ended after its provider call
SingleShotReturned ==
    /\ pc = "done"
    /\ tool \in {"bollinger_scan", "consecutive_candles_scan", "advanced_candle_pattern"}
    /\ calls # <<>>

\* C29 as stated: the single-shot scan tools request only a prefix of the
\* loaded symbol list: bollinger_scan the first 2 * limit symbols,
\* consecutive_candles_scan the first min(3 * limit, 200),
\* advanced_candle_pattern on its single-timeframe path the first
\* min(2 * limit, 100), with limit already clamped; and no symbol beyond
\* the prefix is in the result.
C29_SingleShotToolsRequestAPrefix ==
    SingleShotReturned =>
        LET prefix == FirstOf(LoadedSymbols, StatedPrefix(tool, loc.limit))
        IN /\ Len(calls) = 1
           /\ calls[1].symbols = prefix
           /\ (result.exc = "none" /\ calls[1].ok) =>
                  ReturnedSymbols \subseteq {prefix[k] : k \in 1..Len(prefix)}

\* bollinger_scan returned a row although it left symbols of the list
\* unrequested
C29_ListLongerThanPrefix ==
    /\ ToolReturned("bollinger_scan")
    /\ calls # <<>>
    /\ Len(LoadedSymbols) > 2 * loc.limit
    /\ Len(calls[1].symbols) = 2 * loc.limit
    /\ result.value # <<>>


\* the rows an invocation with the locals of s has after its first k
\* batches when it runs alone: batch after batch of its own symbol list,
\* each provider call ending as the session's k-th call ended
RECURSIVE AloneRows(_, _)
AloneRows(s, k) ==
    IF k = 0 THEN <<>>
    ELSE LET size == session_batch_size(s)
             batch == Slice(s.symbols, (k - 1) * size, k * size)
         IN batch_rows(AloneRows(s, k - 1), s.ended[k], session_items(s, batch))

\* the result of the invocation of s run alone
AloneResult(s) == session_result(s, AloneRows(s, Len(s.ended)))

\* C22 as stated: tool invocations share no mutable state: however the
\* steps of two concurrent invocations interleave, and whatever ran in the
\* session before, each invocation returns the result it returns when run
\* alone on the same provider outcomes.
C22_ConcurrentInvocationsAreIndependent ==
    \A i \in Sessions :
        (sessions[i].pc = "done" /\ sessions[i].symbols # <<>>) =>
            sessions[i].result = AloneResult(sessions[i])

\* both invocations have ended with rows, each having taken steps while
\* the other was inside its own invocation, one a trending tool and the
\* other the smart volume scan
C22_BothEndedAfterInterleaving ==
    /\ sessions[1].pc = "done" /\ sessions[2].pc = "done"
    /\ sessions[1].met = {2} /\ sessions[2].met = {1}
    /\ sessions[1].tool = "top_gainers" /\ sessions[2].tool = "smart_volume_scanner"
    /\ sessions[1].result.exc = "none" /\ sessions[1].result.value # <<>>
    /\ sessions[2].result.exc = "none" /\ sessions[2].result.value # <<>>
    /\ sessions[1].result.value # sessions[2].result.value

\* the symbols of the first k provider calls of s, in the order requested
RECURSIVE IssuedBy(_, _)
IssuedBy(s, k) == IF k = 0 THEN <<>> ELSE IssuedBy(s, k - 1) \o s.issued[k]

\* C23 as stated: within one invocation the batched fetch is strictly
\* sequential: the batches are requested in symbol-list order, the call
\* for batch k+1 is issued only after the call for batch k has returned
\* or raised, and at most one provider call is outstanding.
C23_BatchedFetchStrictlySequential ==
    \A i \in Sessions :
        LET s == sessions[i]
            requested == IssuedBy(s, Len(s.issued))
        IN /\ Len(s.issued) - Len(s.ended) \in {0, 1}
           /\ Len(s.issued) > Len(s.ended) <=> s.pc = "waiting"
           /\ Len(requested) <= Len(s.symbols)
           /\ requested = SubSeq(s.symbols, 1, Len(requested))
           /\ \A k \in 1..Len(s.issued) :
                  s.issued[k] = Slice(s.symbols, (k - 1) * session_batch_size(s),
                                      k * session_batch_size(s))

\* a session waits for its third call, the second having raised, while
\* the other session waits for a call of its own
C23_ThirdCallAfterTwoEnded ==
    /\ sessions[1].pc = "waiting"
    /\ Len(sessions[1].issued) = 3
    /\ sessions[1].ended = <<TRUE, FALSE>>
    /\ sessions[2].pc = "waiting"
    /\ Len(sessions[2].issued) = 2

====
